---------------------------- MODULE Spec2Model ----------------------------
(***************************************************************************)
(* The Espresso faucet (faucet/src/faucet.rs): the persistent request      *)
(* queue (FaucetQueueIndex over an append log, FaucetQueue with its mpmc   *)
(* channel), the transfer workers and the request handler, with process    *)
(* crashes and restarts from the persisted log.                            *)
(***************************************************************************)
EXTENDS Integers, Sequences, FiniteSets, TLC

(***************************************************************************)
(* Bounds of the model.                                                    *)
(***************************************************************************)
\* Largest configured --num-grants explored.
MaxNumGrants == 3
\* Number of requests admitted in one behaviour.
MaxPushes == 2
\* Number of kill/restart cycles in one behaviour.
MaxCrashes == 1
\* The smaller initial faucet balance explored, in grants with their fee.
FundedGrants == 4
\* The configured --num-records: the number of records the breaker maintains and
\* the buffer of its wake channel.
num_records == 4
\* Longest append log explored by the index-only specification.
MaxLog == 4

(***************************************************************************)
(* Program constants: the defaults of FaucetOptions.                       *)
(***************************************************************************)
grant_size == 5000
fee_size == 100

\* Recipient keys (UserPubKey) and worker ids.
Keys == {"k1", "k2"}
Workers == {"w1", "w2"}
NoKey == "nokey"
NoWorker == "noworker"

\* Option<usize>
None == [some |-> FALSE, val |-> 0]
Some(n) == [some |-> TRUE, val |-> n]
\* max_len: Option<usize>; NoLimit stands for None.
NoLimit == -1

VARIABLES
    num_grants,        \* FaucetState.num_grants (configuration)
    max_len,           \* FaucetQueue.max_len (configuration)
    index,             \* FaucetQueueIndex.index: HashMap<UserPubKey, usize>
    persistent_queue,  \* FaucetQueueIndex.queue: the committed append log "requests"
    channel,           \* FaucetQueue.sender/receiver: unbounded mpmc channel
    pushing,           \* keys of push calls between index.insert and sender.send
    pc,                \* position of each worker
    pub_key,           \* worker local pub_key
    grants,            \* worker local grants
    wbalance,          \* worker local balance (read under the keystore lock)
    new_grants,        \* worker local new_grants
    keystore_lock,     \* holder of FaucetState.keystore (Mutex)
    balance,           \* native balance of the faucet keystore
    received,          \* per key, the amounts of the records received from the faucet
    admitted,          \* per key, the number of push calls that inserted it
    crashes,           \* number of kill/restart cycles so far
    signal_breaker_thread, \* number of wake signals buffered for the record breaker
    call,              \* the last call observed, the state it started from and its result
    status,            \* FaucetState.status: FaucetStatus
    closed,            \* whether the request channel is closed
    index_lock,        \* holder of FaucetQueue.index (Mutex)
    bpc,               \* position of init_web_server and of maintain_enough_records
    records,           \* amounts of the keystore's native records that are not on hold
    txns,              \* the transfers break_up_records has submitted, by receipt
    transactions,      \* break_up_records local transactions: the receipts it holds
    transfer_failed    \* history: a transfer of the breaker task's break_up_records
                       \* has failed since the task last took a wake signal

vars == <<num_grants, max_len, index, persistent_queue, channel, pushing, pc, pub_key,
          grants, wbalance, new_grants, keystore_lock, balance, received, admitted,
          crashes, signal_breaker_thread, call, status, closed, index_lock, bpc,
          records, txns, transactions, transfer_failed>>

config == <<num_grants, max_len>>
breakerVars == <<bpc, records, txns, transactions, transfer_failed>>
workerVars == <<pc, pub_key, grants, wbalance, new_grants>>

(***************************************************************************)
(* FaucetQueueIndex: insert, grant, remove.  Each takes the index and the  *)
(* log and returns the new index, the new log and the returned value.      *)
(* store is the outcome of the storage calls of the method: "Ok" when      *)
(* store_resource and both commit_version calls succeed, "StoreErr" when   *)
(* store_resource fails (the error is returned with `?`), "CommitErr" when *)
(* a commit_version fails (its unwrap panics: the call does not return,    *)
(* res is "Panic").  An entry that was stored and not committed is not     *)
(* part of a committed version of the log, which is what load reads.       *)
(***************************************************************************)
StoreOutcomes == {"Ok", "StoreErr", "CommitErr"}

\* The value a method ends with when its storage calls do not all succeed.
StoreFailure(store) == IF store = "StoreErr" THEN "Err" ELSE "Panic"

Entry(key, val) == [key |-> key, val |-> val]

IndexResult(ix, lg, res) == [index |-> ix, queue |-> lg, res |-> res]

MapRemove(ix, key) == [k \in (DOMAIN ix) \ {key} |-> ix[k]]

MapInsert(ix, key, n) == [k \in (DOMAIN ix) \cup {key} |-> IF k = key THEN n ELSE ix[k]]

\* insert without the contains_key test: a second insert writes a second entry.
IndexInsertNoCheck(ix, lg, key, store) ==
    IF store # "Ok"
    THEN IndexResult(ix, lg, StoreFailure(store))
    ELSE IndexResult(MapInsert(ix, key, 0), Append(lg, Entry(key, Some(0))), "Ok(true)")

\* insert that goes on to the map and returns true when store_resource failed.
IndexInsertIgnoreError(ix, lg, key, store) ==
    IF key \in DOMAIN ix
    THEN IndexResult(ix, lg, "Ok(false)")
    ELSE IndexResult(MapInsert(ix, key, 0),
                     IF store = "Ok" THEN Append(lg, Entry(key, Some(0))) ELSE lg, "Ok(true)")

IndexInsert(ix, lg, key, store) ==
    IF key \in DOMAIN ix
    THEN IndexResult(ix, lg, "Ok(false)")
    ELSE IF store # "Ok"
         THEN IndexResult(ix, lg, StoreFailure(store))
         ELSE IndexResult(MapInsert(ix, key, 0), Append(lg, Entry(key, Some(0))), "Ok(true)")

IndexRemove(ix, lg, key, store) ==
    IF store # "Ok"
    THEN IndexResult(ix, lg, StoreFailure(store))
    ELSE IndexResult(MapRemove(ix, key), Append(lg, Entry(key, None)), "Ok(())")

\* grant that updates the map before the append, and leaves it updated on an error.
IndexGrantMemoryFirst(ix, lg, key, granted, max_grants, store) ==
    LET grants_given == ix[key] + granted IN
    IF grants_given >= max_grants
    THEN LET r == IndexRemove(ix, lg, key, store) IN
         IF r.res # "Ok(())" THEN r ELSE IndexResult(r.index, r.queue, "Ok(false)")
    ELSE IF store # "Ok"
         THEN IndexResult(MapInsert(ix, key, grants_given), lg, StoreFailure(store))
         ELSE IndexResult(MapInsert(ix, key, grants_given),
                          Append(lg, Entry(key, Some(grants_given))), "Ok(true)")

\* grant that removes the key only when the count exceeds max_grants.
IndexGrantOffByOne(ix, lg, key, granted, max_grants, store) ==
    LET grants_given == ix[key] + granted IN
    IF grants_given > max_grants
    THEN LET r == IndexRemove(ix, lg, key, store) IN
         IF r.res # "Ok(())" THEN r ELSE IndexResult(r.index, r.queue, "Ok(false)")
    ELSE IF store # "Ok"
         THEN IndexResult(ix, lg, StoreFailure(store))
         ELSE IndexResult(MapInsert(ix, key, grants_given),
                          Append(lg, Entry(key, Some(grants_given))), "Ok(true)")

IndexGrant(ix, lg, key, granted, max_grants, store) ==
    LET grants_given == ix[key] + granted IN
    IF grants_given >= max_grants
    THEN LET r == IndexRemove(ix, lg, key, store) IN
         IF r.res # "Ok(())" THEN r ELSE IndexResult(r.index, r.queue, "Ok(false)")
    ELSE IF store # "Ok"
         THEN IndexResult(ix, lg, StoreFailure(store))
         ELSE IndexResult(MapInsert(ix, key, grants_given),
                          Append(lg, Entry(key, Some(grants_given))), "Ok(true)")

IndexGrants(ix, key) == ix[key]

IndexLen(ix) == Cardinality(DOMAIN ix)

(***************************************************************************)
(* The left fold of a log into an empty map.                               *)
(***************************************************************************)
Apply(ix, e) == IF e.val.some THEN MapInsert(ix, e.key, e.val.val) ELSE MapRemove(ix, e.key)

RECURSIVE FoldFrom(_, _, _)
FoldFrom(ix, lg, i) == IF i > Len(lg) THEN ix ELSE FoldFrom(Apply(ix, lg[i]), lg, i + 1)

EmptyMap == [k \in {} |-> 0]

Fold(lg) == FoldFrom(EmptyMap, lg, 1)

(***************************************************************************)
(* FaucetQueue::load: the walk of the log in reverse.                      *)
(***************************************************************************)
\* load that takes a key as processed at its most recent entry, whatever it is.
LoadStepLatestOnly(st, e) ==
    LET ix1 == IF e.key \in DOMAIN st.index THEN st.index
               ELSE MapInsert(st.index, e.key, e.val)
        fresh == e.key \notin st.processed
        zero == e.val = Some(0)
    IN [index |-> ix1,
        processed |-> IF fresh THEN st.processed \cup {e.key} ELSE st.processed,
        queue |-> IF fresh /\ zero THEN Append(st.queue, e.key) ELSE st.queue]

\* load that does not take a queued Some(0) entry as the end of a key's older
\* requests: every Some(0) entry after the key's last None is queued.
LoadStepZeroNotProcessed(st, e) ==
    LET ix1 == IF e.key \in DOMAIN st.index THEN st.index
               ELSE MapInsert(st.index, e.key, e.val)
        fresh == e.key \notin st.processed
        zero == e.val = Some(0)
        none == e.val = None
    IN [index |-> ix1,
        processed |-> IF fresh /\ none THEN st.processed \cup {e.key} ELSE st.processed,
        queue |-> IF fresh /\ zero THEN Append(st.queue, e.key) ELSE st.queue]

LoadStep(st, e) ==
    LET ix1 == IF e.key \in DOMAIN st.index THEN st.index
               ELSE MapInsert(st.index, e.key, e.val)
        fresh == e.key \notin st.processed
        zero == e.val = Some(0)
        none == e.val = None
    IN [index |-> ix1,
        processed |-> IF fresh /\ (zero \/ none) THEN st.processed \cup {e.key}
                      ELSE st.processed,
        queue |-> IF fresh /\ zero THEN Append(st.queue, e.key) ELSE st.queue]

RECURSIVE LoadWalk(_, _, _)
LoadWalk(st, lg, i) == IF i = 0 THEN st ELSE LoadWalk(LoadStep(st, lg[i]), lg, i - 1)

Reverse(s) == [i \in 1..Len(s) |-> s[Len(s) + 1 - i]]

\* load that sends the keys in the order the reverse walk met them.
LoadUnreversed(lg) ==
    LET st == LoadWalk([index |-> EmptyMap, processed |-> {}, queue |-> <<>>], lg, Len(lg))
        live == {k \in DOMAIN st.index : st.index[k].some}
        ix == [k \in live |-> st.index[k].val]
        q == st.queue
    IN [index |-> ix, channel |-> [i \in 1..Len(q) |-> <<q[i], ix[q[i]]>>]]

\* load that rebuilds the index and leaves the channel empty.
LoadIndexOnly(lg) ==
    LET st == LoadWalk([index |-> EmptyMap, processed |-> {}, queue |-> <<>>], lg, Len(lg))
        live == {k \in DOMAIN st.index : st.index[k].some}
    IN [index |-> [k \in live |-> st.index[k].val], channel |-> <<>>]

Load(lg) ==
    LET st == LoadWalk([index |-> EmptyMap, processed |-> {}, queue |-> <<>>], lg, Len(lg))
        live == {k \in DOMAIN st.index : st.index[k].some}
        ix == [k \in live |-> st.index[k].val]
        q == Reverse(st.queue)
    IN [index |-> ix, channel |-> [i \in 1..Len(q) |-> <<q[i], ix[q[i]]>>]]

(***************************************************************************)
(* The keystore's records.  `records` holds the amounts of the native,     *)
(* unfrozen records that are not on hold, largest first; `balance` is      *)
(* their total.  A transfer puts its inputs on hold (they leave `records`) *)
(* and its outputs to the faucet's own key become records when the         *)
(* transaction is retired.                                                 *)
(***************************************************************************)
RECURSIVE Total(_)
Total(amounts) == IF amounts = <<>> THEN 0 ELSE Head(amounts) + Total(Tail(amounts))

RECURSIVE InsertRecord(_, _)
InsertRecord(recs, a) ==
    IF recs = <<>> \/ a >= Head(recs) THEN <<a>> \o recs
    ELSE <<Head(recs)>> \o InsertRecord(Tail(recs), a)

\* A record of amount 0 is no record.
AddRecord(recs, a) == IF a > 0 THEN InsertRecord(recs, a) ELSE recs

RECURSIVE WithoutPositions(_, _, _)
WithoutPositions(recs, S, i) ==
    IF i > Len(recs) THEN <<>>
    ELSE (IF i \in S THEN <<>> ELSE <<recs[i]>>) \o WithoutPositions(recs, S, i + 1)

RECURSIVE TotalAt(_, _)
TotalAt(recs, S) == IF S = {} THEN 0
                    ELSE LET i == CHOOSE j \in S : TRUE IN recs[i] + TotalAt(recs, S \ {i})

\* The sets of records a transfer of `need` may take as its inputs: enough to pay
\* it, and none that could be left out.
Inputs(recs, need) ==
    {S \in SUBSET (1..Len(recs)) :
        /\ TotalAt(recs, S) >= need
        /\ \A i \in S : TotalAt(recs, S \ {i}) < need}

\* The records after a transfer of `need` from the inputs S, its change received.
Spend(recs, S, need) == AddRecord(WithoutPositions(recs, S, 1), TotalAt(recs, S) - need)

\* spendable_records: the records of at least grant_size.
SpendableRecords(recs) == SelectSeq(recs, LAMBDA a : a >= grant_size)

\* The tasks that take the keystore lock besides the workers.
InitTask == "init"
BreakerTask == "breaker"

(***************************************************************************)
(* Initial states: init_web_server on an empty store, when the server, the *)
(* breaker and the workers have been started and the status is still to be *)
(* set to Available.                                                       *)
(***************************************************************************)
NoCall == [op |-> "none", key |-> NoKey, granted |-> 0, max_grants |-> 0, store |-> "Ok",
           index0 |-> EmptyMap, queue0 |-> <<>>, res |-> "none"]

InitWith(ngs, lens, bals) ==
    /\ num_grants \in ngs
    /\ max_len \in lens
    /\ index = EmptyMap
    /\ persistent_queue = <<>>
    /\ channel = <<>>
    /\ pushing = {}
    /\ pc = [w \in Workers |-> "pop"]
    /\ pub_key = [w \in Workers |-> NoKey]
    /\ grants = [w \in Workers |-> 0]
    /\ wbalance = [w \in Workers |-> 0]
    /\ new_grants = [w \in Workers |-> 0]
    /\ keystore_lock = NoWorker
    /\ balance \in bals
    /\ received = [k \in Keys |-> <<>>]
    /\ admitted = [k \in Keys |-> 0]
    /\ crashes = 0
    /\ signal_breaker_thread = 0
    /\ call = NoCall
    /\ status = "Initializing"
    /\ closed = FALSE
    /\ index_lock = NoWorker
    /\ bpc = [t \in {InitTask, BreakerTask} |->
                IF t = InitTask THEN "status" ELSE "wait_for_work"]
    /\ records = AddRecord(<<>>, balance)
    /\ txns = <<>>
    /\ transactions = <<>>
    /\ transfer_failed = FALSE

Lens == {NoLimit} \cup (1..Cardinality(Keys))

\* A balance that runs out, and one that pays for every grant of a behaviour.
Scarce == FundedGrants * (grant_size + fee_size)
Ample == (MaxPushes * MaxNumGrants + 2 * MaxCrashes) * (grant_size + fee_size)

Init == InitWith(1..MaxNumGrants, Lens, {Scarce})

RECURSIVE SumOver(_, _)
SumOver(f, S) == IF S = {} THEN 0
                 ELSE LET x == CHOOSE y \in S : TRUE IN f[x] + SumOver(f, S \ {x})

Pushes == SumOver(admitted, Keys)

(***************************************************************************)
(* request_fee_assets -> FaucetQueue::push.  The first step is the part    *)
(* under the index lock, the second the send on the channel.               *)
(***************************************************************************)
\* push that rejects only when the index holds more than max_len keys.
PushResultOffByOne(ix, lg, ml, key, store) ==
    IF ml # NoLimit /\ IndexLen(ix) > ml
    THEN IndexResult(ix, lg, "QueueFull")
    ELSE LET r == IndexInsert(ix, lg, key, store) IN
         CASE r.res = "Err" -> r
           [] r.res = "Panic" -> r
           [] r.res = "Ok(false)" -> IndexResult(ix, lg, "AlreadyInQueue")
           [] OTHER -> r

\* push that takes a key already in the index as admitted once more.
PushResultDuplicateOk(ix, lg, ml, key, store) ==
    IF ml # NoLimit /\ IndexLen(ix) >= ml
    THEN IndexResult(ix, lg, "QueueFull")
    ELSE LET r == IndexInsert(ix, lg, key, store) IN
         CASE r.res = "Err" -> r
           [] r.res = "Panic" -> r
           [] r.res = "Ok(false)" -> IndexResult(ix, lg, "Ok(true)")
           [] OTHER -> r

\* push that looks for the key in the index before it tests the length.
PushResultDuplicateFirst(ix, lg, ml, key, store) ==
    IF key \in DOMAIN ix
    THEN IndexResult(ix, lg, "AlreadyInQueue")
    ELSE IF ml # NoLimit /\ IndexLen(ix) >= ml
    THEN IndexResult(ix, lg, "QueueFull")
    ELSE IndexInsert(ix, lg, key, store)

PushResult(ix, lg, ml, key, store) ==
    IF ml # NoLimit /\ IndexLen(ix) >= ml
    THEN IndexResult(ix, lg, "QueueFull")
    ELSE LET r == IndexInsert(ix, lg, key, store) IN
         CASE r.res = "Err" -> r
           [] r.res = "Panic" -> r
           [] r.res = "Ok(false)" -> IndexResult(ix, lg, "AlreadyInQueue")
           [] OTHER -> r

\* request_fee_assets that goes to push whatever the status.
RequestFeeAssetsAnyStatus(st, ix, lg, ml, key, store) == PushResult(ix, lg, ml, key, store)

\* request_fee_assets: the status check, then push.
RequestFeeAssets(st, ix, lg, ml, key, store) ==
    IF st # "Available"
    THEN IndexResult(ix, lg, "Unavailable")
    ELSE PushResult(ix, lg, ml, key, store)

\* What a request that ended with r does to the state, the record of the call apart.
PushEffect(key, r) ==
    /\ r.res = "Ok(true)" => Pushes < MaxPushes
    /\ index_lock \in {NoWorker, key}
    /\ index_lock' = NoWorker
    /\ index' = r.index
    /\ persistent_queue' = r.queue
    /\ pushing' = IF r.res = "Ok(true)" THEN pushing \cup {key} ELSE pushing
    /\ admitted' = IF r.res = "Ok(true)" THEN [admitted EXCEPT ![key] = @ + 1] ELSE admitted
    /\ UNCHANGED <<config, breakerVars, channel, workerVars, keystore_lock, balance,
                   received, crashes, signal_breaker_thread, status, closed>>

Push(key, store) ==
    /\ PushEffect(key, RequestFeeAssets(status, index, persistent_queue, max_len, key, store))
    /\ UNCHANGED call

PushSend(key) ==
    /\ key \in pushing
    /\ channel' = IF closed THEN channel ELSE Append(channel, <<key, 0>>)
    /\ pushing' = pushing \ {key}
    /\ UNCHANGED <<config, index_lock, breakerVars, index, persistent_queue, workerVars, keystore_lock, balance,
                   received, admitted, crashes, signal_breaker_thread, call, status, closed>>

(***************************************************************************)
(* worker                                                                  *)
(***************************************************************************)
\* FaucetQueue::pop and the assertion on the popped item.
Pop(w) ==
    /\ pc[w] = "pop"
    /\ channel # <<>>
    /\ channel' = Tail(channel)
    /\ pub_key' = [pub_key EXCEPT ![w] = Head(channel)[1]]
    /\ grants' = [grants EXCEPT ![w] = Head(channel)[2]]
    /\ pc' = [pc EXCEPT ![w] = IF Head(channel)[2] < num_grants THEN "lock" ELSE "panicked"]
    /\ UNCHANGED <<config, index_lock, breakerVars, index, persistent_queue, pushing, wbalance, new_grants,
                   keystore_lock, balance, received, admitted, crashes, signal_breaker_thread, call, status, closed>>

\* A worker that sleeps with the keystore guard it read the balance under.
SleepHoldingLock(w) ==
    /\ pc[w] = "lock"
    /\ keystore_lock = NoWorker
    /\ balance < grant_size
    /\ keystore_lock' = w
    /\ wbalance' = [wbalance EXCEPT ![w] = balance]
    /\ pc' = [pc EXCEPT ![w] = "sleep"]
    /\ UNCHANGED <<config, index_lock, breakerVars, index, persistent_queue, channel, pushing,
                   pub_key, grants, new_grants, balance, received, admitted, crashes,
                   signal_breaker_thread, call, status, closed>>

\* The balance-wait loop, when the balance is insufficient: lock, read, drop the
\* guard, sleep.
Sleep(w) ==
    /\ pc[w] = "lock"
    /\ keystore_lock = NoWorker
    /\ balance < grant_size
    /\ wbalance' = [wbalance EXCEPT ![w] = balance]
    /\ pc' = [pc EXCEPT ![w] = "sleep"]
    /\ UNCHANGED <<config, index_lock, breakerVars, index, persistent_queue, channel, pushing,
                   pub_key, grants, new_grants, keystore_lock, balance, received, admitted,
                   crashes, signal_breaker_thread, call, status, closed>>

\* The 30 s are over: the worker is back at the top of the balance-wait loop.
SleepDone(w) ==
    /\ pc[w] = "sleep"
    /\ keystore_lock' = IF keystore_lock = w THEN NoWorker ELSE keystore_lock
    /\ pc' = [pc EXCEPT ![w] = "lock"]
    /\ UNCHANGED <<config, index_lock, breakerVars, index, persistent_queue, channel, pushing,
                   pub_key, grants, wbalance, new_grants, balance, received, admitted,
                   crashes, signal_breaker_thread, call, status, closed>>

\* The balance-wait loop, when the balance is sufficient: the lock is kept.
Lock(w) ==
    /\ pc[w] = "lock"
    /\ keystore_lock = NoWorker
    /\ ~(balance < grant_size)
    /\ keystore_lock' = w
    /\ wbalance' = [wbalance EXCEPT ![w] = balance]
    /\ pc' = [pc EXCEPT ![w] = "transfer"]
    /\ UNCHANGED <<config, index_lock, breakerVars, index, persistent_queue, channel, pushing, pub_key, grants,
                   new_grants, balance, received, admitted, crashes, signal_breaker_thread, call, status, closed>>

\* The decision on the balance alone, whatever is still owed to the key.
NewGrantsIgnoreRemaining(ng, given, bal) == IF bal >= grant_size * 2 THEN 2 ELSE 1

\* The two-output transfer only with more than two grants' worth of balance.
NewGrantsStrictBalance(ng, given, bal) == IF ng - given > 1 /\ bal > grant_size * 2 THEN 2 ELSE 1

\* The number of outputs of the transfer the worker submits.
NewGrants(ng, given, bal) == IF ng - given > 1 /\ bal >= grant_size * 2 THEN 2 ELSE 1

Outputs(n) == [i \in 1..n |-> grant_size]

\* keystore.transfer returns Ok: the outputs and the fee leave the faucet's balance,
\* taken from records the keystore chooses; the change is back with the transfer.
TransferOk(w) ==
    LET n == NewGrants(num_grants, grants[w], wbalance[w]) IN
    /\ pc[w] = "transfer"
    /\ balance >= n * grant_size + fee_size
    /\ balance' = balance - (n * grant_size + fee_size)
    /\ \E S \in Inputs(records, n * grant_size + fee_size) :
          records' = Spend(records, S, n * grant_size + fee_size)
    /\ received' = [received EXCEPT ![pub_key[w]] = @ \o Outputs(n)]
    /\ new_grants' = [new_grants EXCEPT ![w] = n]
    /\ pc' = [pc EXCEPT ![w] = "grant"]
    /\ UNCHANGED <<config, transfer_failed, index_lock, bpc, txns, transactions, index, persistent_queue, channel, pushing, pub_key, grants,
                   wbalance, keystore_lock, admitted, crashes, signal_breaker_thread, call, status, closed>>

\* keystore.transfer returns Err: nothing is transferred.
TransferErr(w) ==
    LET n == NewGrants(num_grants, grants[w], wbalance[w]) IN
    /\ pc[w] = "transfer"
    /\ new_grants' = [new_grants EXCEPT ![w] = n]
    /\ pc' = [pc EXCEPT ![w] = "fail"]
    /\ UNCHANGED <<config, index_lock, breakerVars, index, persistent_queue, channel, pushing, pub_key, grants,
                   wbalance, keystore_lock, balance, received, admitted,
                   crashes, signal_breaker_thread, call, status, closed>>

\* fail that sends the key back as a fresh request, with no grants given.
FailFromZero(w) ==
    /\ pc[w] = "fail"
    /\ index_lock \in {NoWorker, w}
    /\ index_lock' = NoWorker
    /\ channel' = IF closed THEN channel ELSE Append(channel, <<pub_key[w], 0>>)
    /\ pc' = [pc EXCEPT ![w] = "pop"]
    /\ pub_key' = [pub_key EXCEPT ![w] = NoKey]
    /\ grants' = [grants EXCEPT ![w] = 0]
    /\ wbalance' = [wbalance EXCEPT ![w] = 0]
    /\ new_grants' = [new_grants EXCEPT ![w] = 0]
    /\ keystore_lock' = NoWorker
    /\ UNCHANGED <<config, breakerVars, index, persistent_queue, pushing, balance,
                   received, admitted, crashes, signal_breaker_thread, call, status, closed>>

\* FaucetQueue::fail, then `continue 'wait_for_requests` (the keystore guard is dropped).
Fail(w) ==
    /\ pc[w] = "fail"
    /\ index_lock \in {NoWorker, w}
    /\ index_lock' = NoWorker
    /\ channel' = IF closed THEN channel
                  ELSE Append(channel, <<pub_key[w], IndexGrants(index, pub_key[w])>>)
    /\ pc' = [pc EXCEPT ![w] = "pop"]
    /\ pub_key' = [pub_key EXCEPT ![w] = NoKey]
    /\ grants' = [grants EXCEPT ![w] = 0]
    /\ wbalance' = [wbalance EXCEPT ![w] = 0]
    /\ new_grants' = [new_grants EXCEPT ![w] = 0]
    /\ keystore_lock' = NoWorker
    /\ UNCHANGED <<config, breakerVars, index, persistent_queue, pushing, balance,
                   received, admitted, crashes, signal_breaker_thread, call, status, closed>>

\* try_send that refuses the signal when the channel holds num_records of them.
TrySendBounded(n) == IF n < num_records THEN n + 1 ELSE n

\* signal_breaker_thread.clone().try_send(()): the send of a new clone of the sender.
\* The capacity of a futures mpsc channel is its buffer plus one slot for each
\* sender, and a sender that has not sent yet is never refused: the signal is
\* queued whatever the channel holds, while the receiver lives.
TrySend(n) == n + 1

\* FaucetQueue::grant: the result of the index's grant, an error read as false; a
\* panic of the index's grant is a panic of the caller.
QueueGrant(ix, lg, key, granted, max_grants, store) ==
    LET r == IndexGrant(ix, lg, key, granted, max_grants, store) IN
    [index |-> r.index, queue |-> r.queue, res |-> r.res = "Ok(true)",
     panic |-> r.res = "Panic"]

\* The worker that sends the key back to the channel while it goes on with it.
GrantRequeue(w, store) ==
    LET r == QueueGrant(index, persistent_queue, pub_key[w], new_grants[w], num_grants,
                        store) IN
    /\ pc[w] = "grant"
    /\ index_lock \in {NoWorker, w}
    /\ index_lock' = NoWorker
    /\ index' = r.index
    /\ persistent_queue' = r.queue
    /\ keystore_lock' = NoWorker
    /\ wbalance' = [wbalance EXCEPT ![w] = 0]
    /\ new_grants' = [new_grants EXCEPT ![w] = 0]
    /\ IF r.panic
       THEN /\ grants' = [grants EXCEPT ![w] = 0]
            /\ pc' = [pc EXCEPT ![w] = "storage_panic"]
            /\ pub_key' = [pub_key EXCEPT ![w] = NoKey]
            /\ UNCHANGED <<signal_breaker_thread, channel>>
       ELSE IF r.res
       THEN /\ grants' = [grants EXCEPT ![w] = @ + new_grants[w]]
            /\ pc' = [pc EXCEPT ![w] = "lock"]
            /\ channel' = Append(channel, <<pub_key[w], r.index[pub_key[w]]>>)
            /\ UNCHANGED pub_key
            /\ UNCHANGED signal_breaker_thread
       ELSE /\ grants' = [grants EXCEPT ![w] = 0]
            /\ pc' = [pc EXCEPT ![w] = "pop"]
            /\ pub_key' = [pub_key EXCEPT ![w] = NoKey]
            /\ signal_breaker_thread' = TrySend(signal_breaker_thread)
            /\ UNCHANGED channel
    /\ UNCHANGED <<config, breakerVars, pushing, balance, received, admitted, crashes, call,
                   status, closed>>

\* The worker that goes on with the same key without adding new_grants to grants.
GrantStaleCount(w, store) ==
    LET r == QueueGrant(index, persistent_queue, pub_key[w], new_grants[w], num_grants,
                        store) IN
    /\ pc[w] = "grant"
    /\ index_lock \in {NoWorker, w}
    /\ index_lock' = NoWorker
    /\ index' = r.index
    /\ persistent_queue' = r.queue
    /\ keystore_lock' = NoWorker
    /\ wbalance' = [wbalance EXCEPT ![w] = 0]
    /\ new_grants' = [new_grants EXCEPT ![w] = 0]
    /\ IF r.panic
       THEN /\ grants' = [grants EXCEPT ![w] = 0]
            /\ pc' = [pc EXCEPT ![w] = "storage_panic"]
            /\ pub_key' = [pub_key EXCEPT ![w] = NoKey]
            /\ UNCHANGED signal_breaker_thread
       ELSE IF r.res
       THEN /\ pc' = [pc EXCEPT ![w] = "lock"]
            /\ UNCHANGED <<pub_key, grants, signal_breaker_thread>>
       ELSE /\ grants' = [grants EXCEPT ![w] = 0]
            /\ pc' = [pc EXCEPT ![w] = "pop"]
            /\ pub_key' = [pub_key EXCEPT ![w] = NoKey]
            /\ signal_breaker_thread' = TrySend(signal_breaker_thread)
    /\ UNCHANGED <<config, breakerVars, channel, pushing, balance, received, admitted,
                   crashes, call, status, closed>>

\* The worker that keeps the guard of the index when it goes on with the same key.
GrantKeepsIndexLock(w, store) ==
    LET r == QueueGrant(index, persistent_queue, pub_key[w], new_grants[w], num_grants,
                        store) IN
    /\ pc[w] = "grant"
    /\ index_lock \in {NoWorker, w}
    /\ index' = r.index
    /\ persistent_queue' = r.queue
    /\ keystore_lock' = NoWorker
    /\ wbalance' = [wbalance EXCEPT ![w] = 0]
    /\ new_grants' = [new_grants EXCEPT ![w] = 0]
    /\ IF r.panic
       THEN /\ grants' = [grants EXCEPT ![w] = 0]
            /\ pc' = [pc EXCEPT ![w] = "storage_panic"]
            /\ pub_key' = [pub_key EXCEPT ![w] = NoKey]
            /\ index_lock' = NoWorker
            /\ UNCHANGED signal_breaker_thread
       ELSE IF r.res
       THEN /\ grants' = [grants EXCEPT ![w] = @ + new_grants[w]]
            /\ pc' = [pc EXCEPT ![w] = "lock"]
            /\ index_lock' = w
            /\ UNCHANGED pub_key
            /\ UNCHANGED signal_breaker_thread
       ELSE /\ grants' = [grants EXCEPT ![w] = 0]
            /\ pc' = [pc EXCEPT ![w] = "pop"]
            /\ pub_key' = [pub_key EXCEPT ![w] = NoKey]
            /\ index_lock' = NoWorker
            /\ signal_breaker_thread' = TrySend(signal_breaker_thread)
    /\ UNCHANGED <<config, breakerVars, channel, pushing, balance, received, admitted,
                   crashes, call, status, closed>>

\* The worker that signals the breaker after each grant it records.
GrantSignalEachTransfer(w, store) ==
    LET r == QueueGrant(index, persistent_queue, pub_key[w], new_grants[w], num_grants,
                        store) IN
    /\ pc[w] = "grant"
    /\ index_lock \in {NoWorker, w}
    /\ index_lock' = NoWorker
    /\ index' = r.index
    /\ persistent_queue' = r.queue
    /\ keystore_lock' = NoWorker
    /\ wbalance' = [wbalance EXCEPT ![w] = 0]
    /\ new_grants' = [new_grants EXCEPT ![w] = 0]
    /\ IF r.panic
       THEN /\ grants' = [grants EXCEPT ![w] = 0]
            /\ pc' = [pc EXCEPT ![w] = "storage_panic"]
            /\ pub_key' = [pub_key EXCEPT ![w] = NoKey]
            /\ UNCHANGED signal_breaker_thread
       ELSE IF r.res
       THEN /\ grants' = [grants EXCEPT ![w] = @ + new_grants[w]]
            /\ pc' = [pc EXCEPT ![w] = "lock"]
            /\ signal_breaker_thread' = TrySend(signal_breaker_thread)
            /\ UNCHANGED pub_key
       ELSE /\ grants' = [grants EXCEPT ![w] = 0]
            /\ pc' = [pc EXCEPT ![w] = "pop"]
            /\ pub_key' = [pub_key EXCEPT ![w] = NoKey]
            /\ signal_breaker_thread' = TrySend(signal_breaker_thread)
    /\ UNCHANGED <<config, breakerVars, channel, pushing, balance, received, admitted,
                   crashes, call, status, closed>>

\* The worker records the grant and either goes on with the same key or leaves it.
\* When a commit fails the worker task panics: its locals and its keystore guard
\* are dropped.
Grant(w, store) ==
    LET r == QueueGrant(index, persistent_queue, pub_key[w], new_grants[w], num_grants,
                        store) IN
    /\ pc[w] = "grant"
    /\ index_lock \in {NoWorker, w}
    /\ index_lock' = NoWorker
    /\ index' = r.index
    /\ persistent_queue' = r.queue
    /\ keystore_lock' = NoWorker
    /\ wbalance' = [wbalance EXCEPT ![w] = 0]
    /\ new_grants' = [new_grants EXCEPT ![w] = 0]
    /\ IF r.panic
       THEN /\ grants' = [grants EXCEPT ![w] = 0]
            /\ pc' = [pc EXCEPT ![w] = "storage_panic"]
            /\ pub_key' = [pub_key EXCEPT ![w] = NoKey]
            /\ UNCHANGED signal_breaker_thread
       ELSE IF r.res
       THEN /\ grants' = [grants EXCEPT ![w] = @ + new_grants[w]]
            /\ pc' = [pc EXCEPT ![w] = "lock"]
            /\ UNCHANGED pub_key
            /\ UNCHANGED signal_breaker_thread
       ELSE /\ grants' = [grants EXCEPT ![w] = 0]
            /\ pc' = [pc EXCEPT ![w] = "pop"]
            /\ pub_key' = [pub_key EXCEPT ![w] = NoKey]
            /\ signal_breaker_thread' = TrySend(signal_breaker_thread)
    /\ UNCHANGED <<config, breakerVars, channel, pushing, balance, received, admitted,
                   crashes, call, status, closed>>

(***************************************************************************)
(* The process is killed and started again: FaucetQueue::load rebuilds the *)
(* index and the channel from the log; every task's state is lost.  The    *)
(* step ends where Init is: the tasks are started, the status is not set.  *)
(***************************************************************************)
Restart ==
    /\ crashes < MaxCrashes
    /\ crashes' = crashes + 1
    /\ index' = Load(persistent_queue).index
    /\ channel' = Load(persistent_queue).channel
    /\ pushing' = {}
    /\ pc' = [w \in Workers |-> "pop"]
    /\ pub_key' = [w \in Workers |-> NoKey]
    /\ grants' = [w \in Workers |-> 0]
    /\ wbalance' = [w \in Workers |-> 0]
    /\ new_grants' = [w \in Workers |-> 0]
    /\ keystore_lock' = NoWorker
    /\ signal_breaker_thread' = 0
    /\ status' = "Initializing"
    /\ closed' = FALSE
    /\ index_lock' = NoWorker
    /\ bpc' = [t \in {InitTask, BreakerTask} |->
                 IF t = InitTask THEN "status" ELSE "wait_for_work"]
    /\ transactions' = <<>>
    /\ transfer_failed' = FALSE
    /\ UNCHANGED <<config, records, txns, persistent_queue, balance, received, admitted,
                   call>>

\* maintain_enough_records takes one wake signal (wakeup.next()) and goes back to
\* the top of its wait loop; the receipts it held are dropped.
BreakerWake ==
    /\ bpc[BreakerTask] \in {"wakeup", "wakeup_after"}
    /\ signal_breaker_thread > 0
    /\ signal_breaker_thread' = signal_breaker_thread - 1
    /\ bpc' = [bpc EXCEPT ![BreakerTask] = "wait_for_work"]
    /\ transactions' = <<>>
    /\ transfer_failed' = FALSE
    /\ UNCHANGED <<config, index_lock, records, txns, index, persistent_queue, channel,
                   pushing, workerVars, keystore_lock, balance, received, admitted, crashes,
                   call, status, closed>>

\* init_web_server that sets the status while it spawns the workers.
SetAvailableWhileSpawning ==
    /\ bpc[InitTask] \in {"spawn_workers", "status"}
    /\ status = "Initializing"
    /\ status' = "Available"
    /\ bpc' = [bpc EXCEPT ![InitTask] = IF @ = "status" THEN "done" ELSE @]
    /\ UNCHANGED <<config, transfer_failed, index_lock, records, txns, transactions, index, persistent_queue,
                   channel, pushing, workerVars, keystore_lock, balance, received,
                   admitted, crashes, signal_breaker_thread, call, closed>>

\* The last statement of init_web_server.
SetAvailable ==
    /\ bpc[InitTask] = "status"
    /\ status = "Initializing"
    /\ status' = "Available"
    /\ bpc' = [bpc EXCEPT ![InitTask] = "done"]
    /\ UNCHANGED <<config, transfer_failed, index_lock, records, txns, transactions, index, persistent_queue, channel, pushing, workerVars,
                   keystore_lock, balance, received, admitted, crashes,
                   signal_breaker_thread, call, closed>>

Next ==
    \/ SetAvailable
    \/ \E k \in Keys, s \in StoreOutcomes : Push(k, s)
    \/ \E k \in Keys : PushSend(k)
    \/ \E w \in Workers : Pop(w)
    \/ \E w \in Workers : Sleep(w)
    \/ \E w \in Workers : SleepDone(w)
    \/ \E w \in Workers : Lock(w)
    \/ \E w \in Workers : TransferOk(w)
    \/ \E w \in Workers : TransferErr(w)
    \/ \E w \in Workers : Fail(w)
    \/ \E w \in Workers, s \in StoreOutcomes : Grant(w, s)
    \/ Restart

Spec == Init /\ [][Next]_vars

\* Every configuration the command line accepts, --num-grants 0 included.
AnyConfigInit == InitWith(0..MaxNumGrants, Lens, {Scarce})

AnyConfigSpec == AnyConfigInit /\ [][Next]_vars

(***************************************************************************)
(* Runs with sufficient funds and no storage error, under fair scheduling: *)
(* every task that can take a step eventually takes it, and a transfer     *)
(* that is attempted again and again eventually succeeds.                  *)
(***************************************************************************)
LiveInit == InitWith(1..MaxNumGrants, {NoLimit}, {Ample})

LiveNext ==
    \/ SetAvailable
    \/ \E k \in Keys : Push(k, "Ok")
    \/ \E k \in Keys : PushSend(k)
    \/ \E w \in Workers : Pop(w)
    \/ \E w \in Workers : Lock(w)
    \/ \E w \in Workers : TransferOk(w)
    \/ \E w \in Workers : TransferErr(w)
    \/ \E w \in Workers : Fail(w)
    \/ \E w \in Workers : Grant(w, "Ok")

\* The steps of a worker other than the outcome of its transfer; at most one is
\* enabled at a time.
WorkerStep(w) == Pop(w) \/ Lock(w) \/ Fail(w) \/ Grant(w, "Ok")

Fairness ==
    /\ \A k \in Keys : WF_vars(PushSend(k))
    /\ \A w \in Workers : WF_vars(WorkerStep(w)) /\ SF_vars(TransferOk(w))

LiveSpec == LiveInit /\ [][LiveNext]_vars /\ Fairness

\* A restart whose bootstrap runs to its last statement before any worker takes a
\* step.  Until the status is set the workers do what they do afterwards and no
\* request is admitted, so every run with the status set later is, the status
\* apart, a run of this one in which the requests come later.
RestartAndServe ==
    /\ crashes < MaxCrashes
    /\ crashes' = crashes + 1
    /\ index' = Load(persistent_queue).index
    /\ channel' = Load(persistent_queue).channel
    /\ pushing' = {}
    /\ pc' = [w \in Workers |-> "pop"]
    /\ pub_key' = [w \in Workers |-> NoKey]
    /\ grants' = [w \in Workers |-> 0]
    /\ wbalance' = [w \in Workers |-> 0]
    /\ new_grants' = [w \in Workers |-> 0]
    /\ keystore_lock' = NoWorker
    /\ signal_breaker_thread' = 0
    /\ status' = "Available"
    /\ closed' = FALSE
    /\ index_lock' = NoWorker
    /\ bpc' = [t \in {InitTask, BreakerTask} |->
                 IF t = InitTask THEN "done" ELSE "wait_for_work"]
    /\ transactions' = <<>>
    /\ transfer_failed' = FALSE
    /\ UNCHANGED <<config, records, txns, persistent_queue, balance, received, admitted,
                   call>>

CrashLiveNext == LiveNext \/ RestartAndServe

CrashLiveSpec == LiveInit /\ [][CrashLiveNext]_vars /\ Fairness

(***************************************************************************)
(* Shutdown.  The request channel is closed when it is closed explicitly   *)
(* or when its last sender is dropped; nothing in the faucet does either   *)
(* while a worker lives (every worker owns a clone of the sender), so the  *)
(* closing is a step of the environment here.  The faucet's part is what   *)
(* pop, push and fail do with a closed channel: items already sent can     *)
(* still be received, a send fails, and pop returns None once the channel  *)
(* is closed and empty.                                                    *)
(***************************************************************************)
Close ==
    /\ ~closed
    /\ closed' = TRUE
    /\ call' = [op |-> "close", channel0 |-> channel]
    /\ UNCHANGED <<config, index_lock, breakerVars, index, persistent_queue, channel, pushing, workerVars,
                   keystore_lock, balance, received, admitted, crashes,
                   signal_breaker_thread, status>>

\* A worker that leaves as soon as the channel is closed, whatever is left in it.
ExitWhenClosed(w) ==
    /\ pc[w] = "pop"
    /\ closed
    /\ pc' = [pc EXCEPT ![w] = "exited"]
    /\ UNCHANGED <<config, index_lock, breakerVars, index, persistent_queue, channel, pushing, pub_key, grants,
                   wbalance, new_grants, keystore_lock, balance, received, admitted,
                   crashes, signal_breaker_thread, call, status, closed>>

\* pop returns None: the `while let` of the worker ends and the task returns.
Exit(w) ==
    /\ pc[w] = "pop"
    /\ closed
    /\ channel = <<>>
    /\ pc' = [pc EXCEPT ![w] = "exited"]
    /\ UNCHANGED <<config, index_lock, breakerVars, index, persistent_queue, channel, pushing, pub_key, grants,
                   wbalance, new_grants, keystore_lock, balance, received, admitted,
                   crashes, signal_breaker_thread, call, status, closed>>

ShutdownNext ==
    \/ LiveNext
    \/ Close
    \/ \E w \in Workers : Exit(w)

ShutdownSpec ==
    /\ LiveInit
    /\ [][ShutdownNext]_vars
    /\ Fairness
    /\ \A w \in Workers : WF_vars(Exit(w))

(***************************************************************************)
(* The record breaker and the bootstrap.  init_web_server calls            *)
(* break_up_records once, awaits the receipts it returned, spawns          *)
(* maintain_enough_records and the workers and sets the status.            *)
(* bpc[InitTask] and bpc[BreakerTask] are the positions of the two tasks;  *)
(* "break_up_records", "break_up_lock" and "break_up_await" are positions  *)
(* inside break_up_records, which both tasks call.  A transaction that was *)
(* submitted is retired by the ledger at any later time, whoever holds the *)
(* keystore lock.                                                          *)
(***************************************************************************)
Tasks == {InitTask, BreakerTask}

\* A split into two outputs of half the amount, rounded down.
SplitOutputsEqualHalves(amount) == <<amount \div 2, amount \div 2>>

\* The outputs of the transfer that breaks up a record: change_amount, split_amount.
SplitOutputs(amount) ==
    LET split_amount == amount \div 2
        change_amount == amount - split_amount
    IN <<change_amount, split_amount>>

Txn(amount) == [input |-> amount, outputs |-> SplitOutputs(amount), fee |-> 0,
                status |-> "pending"]

\* The receipts of a list that the ledger has not retired yet.
PendingReceipts(receipts) == {i \in 1..Len(receipts) : txns[receipts[i]].status = "pending"}

\* Where break_up_records returns to, with Some(transactions) or with None.
Returned(t, some) ==
    IF t = InitTask THEN (IF some THEN "await_lock" ELSE "spawn_breaker")
    ELSE (IF some THEN "wakeup_after" ELSE "wait_for_work")

\* break_up_records without the early return on an empty list of receipts.
BreakUpRecordsNoEarlyReturn(t, transfer_ok) ==
    LET spendable == SpendableRecords(records) IN
    /\ bpc[t] = "break_up_records"
    /\ keystore_lock = NoWorker
    /\ IF Len(spendable) + 2 * Len(transactions) >= num_records
       THEN /\ bpc' = [bpc EXCEPT ![t] = Returned(t, TRUE)]
            /\ UNCHANGED <<records, balance, txns, transactions, transfer_failed>>
       ELSE IF spendable # <<>> /\ Head(spendable) >= grant_size * 2 /\ transfer_ok
       THEN /\ records' = Tail(records)
            /\ balance' = balance - Head(records)
            /\ txns' = Append(txns, Txn(Head(spendable)))
            /\ transactions' = Append(transactions, Len(txns) + 1)
            /\ UNCHANGED <<bpc, transfer_failed>>
       ELSE /\ bpc' = [bpc EXCEPT ![t] = "break_up_lock"]
            /\ UNCHANGED <<records, balance, txns, transactions, transfer_failed>>
    /\ UNCHANGED <<config, index_lock, index, persistent_queue, channel, pushing,
                   workerVars, keystore_lock, received, admitted, crashes,
                   signal_breaker_thread, call, status, closed>>

\* One pass of the inner loop of break_up_records, under the keystore lock: return
\* the receipts when the records and the pending outputs reach num_records; else
\* break up the largest record, which the keystore is trusted to take as the input
\* of a transfer of its amount; else (no record of 2 * grant_size, or the transfer
\* failed) leave the loop, to return None or to wait for the receipts.
BreakUpRecords(t, transfer_ok) ==
    LET spendable == SpendableRecords(records) IN
    /\ bpc[t] = "break_up_records"
    /\ keystore_lock = NoWorker
    /\ IF Len(spendable) + 2 * Len(transactions) >= num_records
       THEN /\ bpc' = [bpc EXCEPT ![t] = Returned(t, TRUE)]
            /\ UNCHANGED <<records, balance, txns, transactions, transfer_failed>>
       ELSE IF spendable # <<>> /\ Head(spendable) >= grant_size * 2 /\ transfer_ok
       THEN /\ records' = Tail(records)
            /\ balance' = balance - Head(records)
            /\ txns' = Append(txns, Txn(Head(spendable)))
            /\ transactions' = Append(transactions, Len(txns) + 1)
            /\ UNCHANGED <<bpc, transfer_failed>>
       ELSE /\ bpc' = [bpc EXCEPT ![t] = IF transactions = <<>> THEN Returned(t, FALSE)
                                         ELSE "break_up_lock"]
            /\ transfer_failed' = IF /\ t = BreakerTask
                                     /\ spendable # <<>>
                                     /\ Head(spendable) >= grant_size * 2
                                  THEN TRUE ELSE transfer_failed
            /\ UNCHANGED <<records, balance, txns, transactions>>
    /\ UNCHANGED <<config, index_lock, index, persistent_queue, channel, pushing,
                   workerVars, keystore_lock, received, admitted, crashes,
                   signal_breaker_thread, call, status, closed>>

\* break_up_records takes the keystore lock to wait for its transactions.
BreakUpLock(t) ==
    /\ bpc[t] = "break_up_lock"
    /\ keystore_lock = NoWorker
    /\ keystore_lock' = t
    /\ bpc' = [bpc EXCEPT ![t] = "break_up_await"]
    /\ UNCHANGED <<config, transfer_failed, index_lock, records, txns, transactions, index,
                   persistent_queue, channel, pushing, workerVars, balance, received,
                   admitted, crashes, signal_breaker_thread, call, status, closed>>

\* join_all of await_transaction has returned: the guard is dropped and the outer
\* loop starts again with an empty list.
BreakUpAwait(t) ==
    /\ bpc[t] = "break_up_await"
    /\ PendingReceipts(transactions) = {}
    /\ keystore_lock' = NoWorker
    /\ transactions' = <<>>
    /\ bpc' = [bpc EXCEPT ![t] = "break_up_records"]
    /\ UNCHANGED <<config, transfer_failed, index_lock, records, txns, index, persistent_queue, channel,
                   pushing, workerVars, balance, received, admitted, crashes,
                   signal_breaker_thread, call, status, closed>>

\* The ledger retires a transaction: its outputs are records of the faucet.
Retire(u) ==
    /\ u \in 1..Len(txns)
    /\ txns[u].status = "pending"
    /\ txns' = [txns EXCEPT ![u].status = "retired"]
    /\ records' = AddRecord(AddRecord(records, txns[u].outputs[1]), txns[u].outputs[2])
    /\ balance' = balance + txns[u].outputs[1] + txns[u].outputs[2]
    /\ UNCHANGED <<config, transfer_failed, index_lock, bpc, transactions, index, persistent_queue,
                   channel, pushing, workerVars, keystore_lock, received, admitted,
                   crashes, signal_breaker_thread, call, status, closed>>

\* init_web_server takes the keystore lock to await the receipts it was returned.
AwaitLock ==
    /\ bpc[InitTask] = "await_lock"
    /\ keystore_lock = NoWorker
    /\ keystore_lock' = InitTask
    /\ bpc' = [bpc EXCEPT ![InitTask] = "await_transactions"]
    /\ UNCHANGED <<config, transfer_failed, index_lock, records, txns, transactions, index,
                   persistent_queue, channel, pushing, workerVars, balance, received,
                   admitted, crashes, signal_breaker_thread, call, status, closed>>

\* join_all has returned in init_web_server.
AwaitTransactions ==
    /\ bpc[InitTask] = "await_transactions"
    /\ PendingReceipts(transactions) = {}
    /\ keystore_lock' = NoWorker
    /\ transactions' = <<>>
    /\ bpc' = [bpc EXCEPT ![InitTask] = "spawn_breaker"]
    /\ UNCHANGED <<config, transfer_failed, index_lock, records, txns, index, persistent_queue, channel,
                   pushing, workerVars, balance, received, admitted, crashes,
                   signal_breaker_thread, call, status, closed>>

\* spawn(maintain_enough_records(..)).
SpawnBreaker ==
    /\ bpc[InitTask] = "spawn_breaker"
    /\ bpc' = [t \in Tasks |-> IF t = InitTask THEN "spawn_workers" ELSE "wait_for_work"]
    /\ UNCHANGED <<config, transfer_failed, index_lock, records, txns, transactions, index,
                   persistent_queue, channel, pushing, workerVars, keystore_lock, balance,
                   received, admitted, crashes, signal_breaker_thread, call, status,
                   closed>>

\* spawn(worker(id, ..)), and the end of the loop after the last of them.
SpawnWorker(w) ==
    /\ bpc[InitTask] = "spawn_workers"
    /\ pc[w] = "unspawned"
    /\ pc' = [pc EXCEPT ![w] = "pop"]
    /\ bpc' = [bpc EXCEPT ![InitTask] =
                 IF \A v \in Workers \ {w} : pc[v] # "unspawned" THEN "status" ELSE @]
    /\ UNCHANGED <<config, transfer_failed, index_lock, records, txns, transactions, index,
                   persistent_queue, channel, pushing, pub_key, grants, wbalance,
                   new_grants, keystore_lock, balance, received, admitted, crashes,
                   signal_breaker_thread, call, status, closed>>

\* A breaker that goes to work whenever the records are fewer than num_records.
WaitForWorkFullTarget ==
    LET recs == SpendableRecords(records) IN
    /\ bpc[BreakerTask] = "wait_for_work"
    /\ keystore_lock = NoWorker
    /\ bpc' = [bpc EXCEPT ![BreakerTask] =
                 IF Len(recs) >= num_records THEN "wakeup"
                 ELSE IF ~(\E i \in 1..Len(recs) : recs[i] > grant_size * 2) THEN "wakeup"
                 ELSE "break_up_records"]
    /\ UNCHANGED <<config, transfer_failed, index_lock, records, txns, transactions, index,
                   persistent_queue, channel, pushing, workerVars, keystore_lock, balance,
                   received, admitted, crashes, signal_breaker_thread, call, status,
                   closed>>

\* One pass of the wait loop of maintain_enough_records, under the keystore lock:
\* wait for a wake signal when there are records enough or none to break up.
WaitForWork ==
    LET recs == SpendableRecords(records) IN
    /\ bpc[BreakerTask] = "wait_for_work"
    /\ keystore_lock = NoWorker
    /\ bpc' = [bpc EXCEPT ![BreakerTask] =
                 IF Len(recs) >= num_records \div 2 THEN "wakeup"
                 ELSE IF ~(\E i \in 1..Len(recs) : recs[i] > grant_size * 2) THEN "wakeup"
                 ELSE "break_up_records"]
    /\ UNCHANGED <<config, transfer_failed, index_lock, records, txns, transactions, index,
                   persistent_queue, channel, pushing, workerVars, keystore_lock, balance,
                   received, admitted, crashes, signal_breaker_thread, call, status,
                   closed>>

\* The wallets a faucet is started with: one large record of an odd amount, one
\* record that break_up_records breaks up and maintain_enough_records does not,
\* and records enough from the start.
Wallets == {<<8 * grant_size + 1>>, <<2 * grant_size + 2 * fee_size>>,
            [i \in 1..num_records |-> grant_size + fee_size]}

\* The logs a faucet is started on: an empty one, and one with a request that was
\* not served.
StoredQueues == {<<>>, <<[key |-> "k1", val |-> Some(0)]>>}

\* init_web_server before its call of break_up_records: FaucetState::new has
\* loaded the queue.  A faucet started on a request has the one record that only
\* break_up_records breaks up.
BootInit ==
    /\ persistent_queue \in StoredQueues
    /\ num_grants \in {1, 2}
    /\ max_len = 1
    /\ index = Load(persistent_queue).index
    /\ channel = Load(persistent_queue).channel
    /\ pushing = {}
    /\ pc = [w \in Workers |-> "unspawned"]
    /\ pub_key = [w \in Workers |-> NoKey]
    /\ grants = [w \in Workers |-> 0]
    /\ wbalance = [w \in Workers |-> 0]
    /\ new_grants = [w \in Workers |-> 0]
    /\ keystore_lock = NoWorker
    /\ records \in (IF persistent_queue = <<>> THEN Wallets
                    ELSE {<<2 * grant_size + 2 * fee_size>>})
    /\ balance = Total(records)
    /\ received = [k \in Keys |-> <<>>]
    /\ admitted = [k \in Keys |-> 0]
    /\ crashes = 0
    /\ signal_breaker_thread = 0
    /\ call = NoCall
    /\ status = "Initializing"
    /\ closed = FALSE
    /\ index_lock = NoWorker
    /\ bpc = [t \in Tasks |-> IF t = InitTask THEN "break_up_records" ELSE "unspawned"]
    /\ txns = <<>>
    /\ transactions = <<>>
    /\ transfer_failed = FALSE

BreakerNext ==
    \/ \E t \in Tasks, ok \in BOOLEAN : BreakUpRecords(t, ok)
    \/ \E t \in Tasks : BreakUpLock(t)
    \/ \E t \in Tasks : BreakUpAwait(t)
    \/ \E u \in 1..Len(txns) : Retire(u)
    \/ AwaitLock
    \/ AwaitTransactions
    \/ SpawnBreaker
    \/ \E w \in Workers : SpawnWorker(w)
    \/ WaitForWork
    \/ BreakerWake
    \/ SetAvailable
    \/ \E k \in Keys : Push(k, "Ok")
    \/ \E k \in Keys : PushSend(k)
    \/ \E w \in Workers : Pop(w)
    \/ \E w \in Workers : Lock(w)
    \/ \E w \in Workers : TransferOk(w)
    \/ \E w \in Workers : Grant(w, "Ok")

BreakerSpec == BootInit /\ [][BreakerNext]_vars

(***************************************************************************)
(* The faucet on a keystore that pays for two grants by one transfer, or   *)
(* for one grant and has grant_size left.                                  *)
(***************************************************************************)
FeeInit == InitWith(1..MaxNumGrants, {NoLimit}, {2 * grant_size + fee_size})

FeeSpec == FeeInit /\ [][Next]_vars

(***************************************************************************)
(* break_up_records alone: the call of init_web_server, before any other   *)
(* task exists, on a keystore of any records.  The ledger retires every    *)
(* transaction that was submitted.                                         *)
(***************************************************************************)
BreakUpWallets ==
    Wallets \cup {<<16 * grant_size + 3>>,
                  <<3 * grant_size, 2 * grant_size, grant_size>>,
                  <<4 * grant_size, 2 * grant_size - 1>>,
                  <<6 * grant_size, 5 * grant_size + 1>>,
                  <<2 * grant_size, 2 * grant_size, grant_size - 1>>,
                  <<grant_size - 1>>}

BreakUpInit ==
    /\ num_grants = 1
    /\ max_len = NoLimit
    /\ persistent_queue = <<>>
    /\ index = EmptyMap
    /\ channel = <<>>
    /\ pushing = {}
    /\ pc = [w \in Workers |-> "unspawned"]
    /\ pub_key = [w \in Workers |-> NoKey]
    /\ grants = [w \in Workers |-> 0]
    /\ wbalance = [w \in Workers |-> 0]
    /\ new_grants = [w \in Workers |-> 0]
    /\ keystore_lock = NoWorker
    /\ records \in BreakUpWallets
    /\ balance = Total(records)
    /\ received = [k \in Keys |-> <<>>]
    /\ admitted = [k \in Keys |-> 0]
    /\ crashes = 0
    /\ signal_breaker_thread = 0
    /\ call = NoCall
    /\ status = "Initializing"
    /\ closed = FALSE
    /\ index_lock = NoWorker
    /\ bpc = [t \in Tasks |-> IF t = InitTask THEN "break_up_records" ELSE "unspawned"]
    /\ txns = <<>>
    /\ transactions = <<>>
    /\ transfer_failed = FALSE

BreakUpNext ==
    \/ \E ok \in BOOLEAN : BreakUpRecords(InitTask, ok)
    \/ BreakUpLock(InitTask)
    \/ BreakUpAwait(InitTask)
    \/ \E u \in 1..Len(txns) : Retire(u)

\* The task is scheduled, and the ledger retires what was submitted.
BreakUpFairness ==
    /\ WF_vars(\E ok \in BOOLEAN : BreakUpRecords(InitTask, ok))
    /\ WF_vars(BreakUpLock(InitTask))
    /\ WF_vars(BreakUpAwait(InitTask))
    /\ WF_vars(\E u \in 1..Len(txns) : Retire(u))

BreakUpSpec == BreakUpInit /\ [][BreakUpNext]_vars /\ BreakUpFairness

(***************************************************************************)
(* The two locks.  Push, FaucetQueue::grant and fail take the lock of the  *)
(* index for one call; here the taking of the lock is a step of its own,   *)
(* so that a task can be seen to hold the lock or to wait for it.  A       *)
(* request handler is named by the key it was called with.  The faucet     *)
(* runs with its breaker, from a keystore of one record.                   *)
(***************************************************************************)
\* self.index.lock().await in push, FaucetQueue::grant and fail.
IndexLock(t) ==
    /\ index_lock = NoWorker
    /\ \/ t \in Workers /\ pc[t] \in {"grant", "fail"}
       \/ t \in Keys /\ status = "Available"
    /\ index_lock' = t
    /\ UNCHANGED <<config, breakerVars, index, persistent_queue, channel, pushing,
                   workerVars, keystore_lock, balance, received, admitted, crashes,
                   signal_breaker_thread, call, status, closed>>

LockInit ==
    /\ InitWith({2}, {NoLimit}, {3 * grant_size + 3 * fee_size})
    /\ status = "Initializing"

LockNext ==
    \/ SetAvailable
    \/ \E t \in Workers \cup Keys : IndexLock(t)
    \/ \E k \in Keys, s \in StoreOutcomes : Push(k, s)
    \/ \E k \in Keys : PushSend(k)
    \/ \E w \in Workers : Pop(w)
    \/ \E w \in Workers : Sleep(w)
    \/ \E w \in Workers : SleepDone(w)
    \/ \E w \in Workers : Lock(w)
    \/ \E w \in Workers : TransferOk(w)
    \/ \E w \in Workers : TransferErr(w)
    \/ \E w \in Workers : Fail(w)
    \/ \E w \in Workers : Grant(w, "Ok")
    \/ WaitForWork
    \/ BreakerWake
    \/ \E ok \in BOOLEAN : BreakUpRecords(BreakerTask, ok)
    \/ BreakUpLock(BreakerTask)
    \/ BreakUpAwait(BreakerTask)
    \/ \E u \in 1..Len(txns) : Retire(u)

LockSpec == LockInit /\ [][LockNext]_vars

(***************************************************************************)
(* The wake channel.  A faucet that is Available and has served            *)
(* num_records - 1 requests since maintain_enough_records last polled its  *)
(* receiver: the signals of these requests are in the channel, whose       *)
(* buffer has room for one more.  The breaker takes a signal whenever it   *)
(* is scheduled, and finds records enough.                                 *)
(***************************************************************************)
SignalInit ==
    /\ num_grants = 1
    /\ max_len = NoLimit
    /\ index = EmptyMap
    /\ persistent_queue = <<>>
    /\ channel = <<>>
    /\ pushing = {}
    /\ pc = [w \in Workers |-> "pop"]
    /\ pub_key = [w \in Workers |-> NoKey]
    /\ grants = [w \in Workers |-> 0]
    /\ wbalance = [w \in Workers |-> 0]
    /\ new_grants = [w \in Workers |-> 0]
    /\ keystore_lock = NoWorker
    /\ records = [i \in 1..(num_records + MaxPushes) |-> grant_size + fee_size]
    /\ balance = Total(records)
    /\ received = [k \in Keys |-> <<>>]
    /\ admitted = [k \in Keys |-> 0]
    /\ crashes = 0
    /\ signal_breaker_thread = num_records - 1
    /\ call = NoCall
    /\ status = "Available"
    /\ closed = FALSE
    /\ index_lock = NoWorker
    /\ bpc = [t \in Tasks |-> IF t = InitTask THEN "done" ELSE "wakeup"]
    /\ txns = <<>>
    /\ transactions = <<>>
    /\ transfer_failed = FALSE

SignalNext ==
    \/ \E k \in Keys : Push(k, "Ok")
    \/ \E k \in Keys : PushSend(k)
    \/ \E w \in Workers : Pop(w)
    \/ \E w \in Workers : Lock(w)
    \/ \E w \in Workers : TransferOk(w)
    \/ \E w \in Workers : Grant(w, "Ok")
    \/ WaitForWork
    \/ BreakerWake

SignalSpec == SignalInit /\ [][SignalNext]_vars

(***************************************************************************)
(* FaucetQueueIndex on its own: any sequence of insert, grant and remove,  *)
(* each with storage calls that succeed or fail, and load.  `call` keeps   *)
(* the call, the state it started from and what it returned.               *)
(***************************************************************************)
Granted == 0..2

IndexCall(op, key, granted, max_grants, store, r) ==
    /\ Len(persistent_queue) < MaxLog
    /\ call' = [op |-> op, key |-> key, granted |-> granted, max_grants |-> max_grants,
                store |-> store,
                index0 |-> index, queue0 |-> persistent_queue, res |-> r.res]
    /\ index' = r.index
    /\ persistent_queue' = r.queue
    /\ UNCHANGED <<config, index_lock, breakerVars, channel, pushing, workerVars, keystore_lock, balance, received,
                   admitted, crashes, signal_breaker_thread, status, closed>>

CallInsert(key, store) ==
    IndexCall("insert", key, 0, 0, store, IndexInsert(index, persistent_queue, key, store))

\* grant indexes the map with the key: it is called for keys of the index only.
CallGrant(key, granted, max_grants, store) ==
    /\ key \in DOMAIN index
    /\ IndexCall("grant", key, granted, max_grants, store,
                 IndexGrant(index, persistent_queue, key, granted, max_grants, store))

CallRemove(key, store) ==
    IndexCall("remove", key, 0, 0, store, IndexRemove(index, persistent_queue, key, store))

\* FaucetQueue::load on the log as it is: the index and the channel are rebuilt.
CallLoad ==
    LET r == Load(persistent_queue) IN
    /\ call' = [op |-> "load", key |-> NoKey, granted |-> 0, max_grants |-> 0,
                store |-> "Ok",
                index0 |-> index, queue0 |-> persistent_queue, res |-> "Ok"]
    /\ index' = r.index
    /\ channel' = r.channel
    /\ UNCHANGED <<config, index_lock, breakerVars, persistent_queue, pushing, workerVars, keystore_lock, balance,
                   received, admitted, crashes, signal_breaker_thread, status, closed>>

IndexInit == InitWith({1}, {NoLimit}, {Scarce})

IndexNext ==
    \/ \E k \in Keys, s \in StoreOutcomes : CallInsert(k, s)
    \/ \E k \in Keys, g \in Granted, m \in 1..MaxNumGrants, s \in StoreOutcomes :
          CallGrant(k, g, m, s)
    \/ \E k \in Keys, s \in StoreOutcomes : CallRemove(k, s)
    \/ CallLoad

IndexSpec == IndexInit /\ [][IndexNext]_vars

(***************************************************************************)
(* The HTTP API observed: the faucet with every request_fee_assets and      *)
(* healthcheck call kept in `call`: the status the call read, the number   *)
(* of keys of the index and whether the key was among them when the call   *)
(* started, what it returned and what it did to index, log, channel and    *)
(* the sends still to be made.                                             *)
(***************************************************************************)
\* What a step does to the queue: nothing, the admission of the key (one entry
\* (key, Some(0)) appended, index[key] = 0, the send to the channel still to be
\* made), or anything else.
CallEffect(key) ==
    IF <<index', persistent_queue', channel', pushing'>>
         = <<index, persistent_queue, channel, pushing>>
    THEN "none"
    ELSE IF /\ key \notin DOMAIN index
            /\ index' = MapInsert(index, key, 0)
            /\ persistent_queue' = Append(persistent_queue, Entry(key, Some(0)))
            /\ channel' = channel
            /\ pushing' = pushing \cup {key}
         THEN "admitted"
         ELSE "other"

ApiCall(op, key, res) ==
    [op |-> op, key |-> key, res |-> res, status0 |-> status,
     len0 |-> IndexLen(index), known0 |-> key \in DOMAIN index,
     effect |-> CallEffect(key)]

Request(key, store) ==
    LET r == RequestFeeAssets(status, index, persistent_queue, max_len, key, store) IN
    /\ PushEffect(key, r)
    /\ call' = ApiCall("request_fee_assets", key, r.res)

\* A healthcheck that fails until the faucet is available.
HealthCheckStatusFailsInitializing(st) == IF st = "Initializing" THEN 503 ELSE 200

\* HealthCheck::status: StatusCode::Ok whatever the faucet's status.
HealthCheckStatus(st) == 200

\* healthcheck: the response carries the status read.
Healthcheck ==
    /\ call' = [op |-> "healthcheck", code |-> HealthCheckStatus(status),
                status |-> status]
    /\ UNCHANGED <<config, index_lock, breakerVars, index, persistent_queue, channel, pushing, workerVars,
                   keystore_lock, balance, received, admitted, crashes,
                   signal_breaker_thread, status, closed>>

ApiNext ==
    \/ SetAvailable
    \/ Healthcheck
    \/ \E k \in Keys, s \in StoreOutcomes : Request(k, s)
    \/ \E k \in Keys : PushSend(k)
    \/ \E w \in Workers : Pop(w)
    \/ \E w \in Workers : Lock(w)
    \/ \E w \in Workers : TransferOk(w)
    \/ \E w \in Workers : Grant(w, "Ok")
    \/ Restart

\* The requests are observed with funds for every grant and one or two grants per key.
ApiInit == InitWith({1, 2}, Lens, {Ample})

ApiSpec == ApiInit /\ [][ApiNext]_vars

(***************************************************************************)
(* Helpers of the properties.                                              *)
(***************************************************************************)
\* Positions of the log entries of a key.
EntriesOf(lg, key) == {i \in 1..Len(lg) : lg[i].key = key}

HasEntry(lg, key) == EntriesOf(lg, key) # {}

\* The most recent log entry of a key that has one.
LastVal(lg, key) ==
    lg[CHOOSE i \in EntriesOf(lg, key) : \A j \in EntriesOf(lg, key) : j <= i].val

\* The most recent log entry of the key is Some(_).
Pending(lg, key) == HasEntry(lg, key) /\ LastVal(lg, key).some

\* Number of items of a key in a channel.
ItemsOf(ch, key) == Cardinality({i \in 1..Len(ch) : ch[i][1] = key})

----------------------------------------------------------------------------
\* C1: after any sequence of insert / grant / remove calls, failed appends
\* included, the in-memory index is the left fold of the append log.
IndexIsFoldOfLog == index = Fold(persistent_queue)

\* C1 witness: a call failed on its append while the index and the log were not empty.
IndexIsFoldOfLogWitness ==
    /\ call.res = "Err"
    /\ index # EmptyMap
    /\ Len(persistent_queue) >= 2

\* C2: for every log a run of the faucet produces, load yields the fold of the log
\* as index, and a channel with exactly one item (k, index[k]) for every key whose
\* most recent entry is Some(_) and no item for any other key.
LoadMatchesLog ==
    LET r == Load(persistent_queue) IN
    /\ r.index = Fold(persistent_queue)
    /\ \A k \in Keys : ItemsOf(r.channel, k) = IF Pending(persistent_queue, k) THEN 1 ELSE 0
    /\ \A i \in 1..Len(r.channel) : r.channel[i][2] = r.index[r.channel[i][1]]

\* C2 witness: a restart has loaded a log in which one key's most recent entry is
\* Some(n) with n > 0 and another key's is None.
LoadMatchesLogWitness ==
    /\ crashes > 0
    /\ index = Load(persistent_queue).index
    /\ channel = Load(persistent_queue).channel
    /\ \E i \in 1..Len(channel) : channel[i][2] > 0
    /\ \E k \in Keys : HasEntry(persistent_queue, k) /\ ~Pending(persistent_queue, k)

\* C3: grant(key, granted, max_grants) with n' = index[key] + granted appends
\* (key, None), removes the key and returns false when n' >= max_grants, and
\* otherwise appends (key, Some(n')), sets index[key] = n' and returns true; one
\* entry is appended and no other key changes.  A failed append or commit changes
\* nothing.
GrantContract ==
    call.op = "grant" =>
        LET n == call.index0[call.key] + call.granted IN
        IF call.res \in {"Err", "Panic"}
        THEN index = call.index0 /\ persistent_queue = call.queue0
        ELSE IF n >= call.max_grants
             THEN /\ persistent_queue = Append(call.queue0, Entry(call.key, None))
                  /\ call.key \notin DOMAIN index
                  /\ call.res = "Ok(false)"
                  /\ \A k \in Keys \ {call.key} :
                        /\ k \in DOMAIN index <=> k \in DOMAIN call.index0
                        /\ k \in DOMAIN index => index[k] = call.index0[k]
             ELSE /\ persistent_queue = Append(call.queue0, Entry(call.key, Some(n)))
                  /\ call.key \in DOMAIN index
                  /\ index[call.key] = n
                  /\ call.res = "Ok(true)"
                  /\ \A k \in Keys \ {call.key} :
                        /\ k \in DOMAIN index <=> k \in DOMAIN call.index0
                        /\ k \in DOMAIN index => index[k] = call.index0[k]

\* C3 witness: a grant reached max_grants exactly while another key stayed pending.
GrantContractWitness ==
    /\ call.op = "grant"
    /\ call.res = "Ok(false)"
    /\ call.index0[call.key] + call.granted = call.max_grants
    /\ index # EmptyMap

\* C4: insert of a key of the index returns false and appends nothing; insert of
\* an absent key appends the one entry (key, Some(0)) and sets index[key] = 0;
\* an insert repeated after a successful one returns false and appends nothing.
InsertIdempotent ==
    call.op = "insert" =>
        /\ call.key \in DOMAIN call.index0 =>
              /\ call.res = "Ok(false)"
              /\ persistent_queue = call.queue0
              /\ index = call.index0
        /\ call.key \notin DOMAIN call.index0 /\ call.res \notin {"Err", "Panic"} =>
              /\ call.res = "Ok(true)"
              /\ persistent_queue = Append(call.queue0, Entry(call.key, Some(0)))
              /\ call.key \in DOMAIN index /\ index[call.key] = 0
        /\ call.res = "Ok(true)" =>
              \A s \in StoreOutcomes :
                 LET again == IndexInsert(index, persistent_queue, call.key, s) IN
                 /\ again.res = "Ok(false)"
                 /\ again.queue = persistent_queue
                 /\ Cardinality(EntriesOf(again.queue, call.key))
                      = Cardinality(EntriesOf(call.queue0, call.key)) + 1

\* C4 witness: insert(k) returned true and the next call, insert(k) again, false.
InsertIdempotentWitness ==
    /\ call.op = "insert"
    /\ call.res = "Ok(false)"
    /\ call.queue0 # <<>>
    /\ call.queue0[Len(call.queue0)] = Entry(call.key, Some(0))
    /\ Cardinality(EntriesOf(persistent_queue, call.key)) = 1

AllGrantSize(amounts) == \A i \in 1..Len(amounts) : amounts[i] = grant_size

\* C5: every value of the index is below num_grants and no worker's assertion on a
\* popped item fails, for any configured num_grants.
GrantsBelowNumGrants ==
    /\ \A k \in DOMAIN index : 0 <= index[k] /\ index[k] < num_grants
    /\ \A w \in Workers : pc[w] # "panicked"

\* C6: no two workers hold the same key at the same time.
NoTwoWorkersHoldSameKey ==
    \A w1, w2 \in Workers :
        w1 # w2 /\ pub_key[w1] # NoKey => pub_key[w1] # pub_key[w2]

\* C6 witness: both workers hold a key, one of them with grants already recorded
\* and the keystore lock, the other waiting for the lock on a fresh key.
NoTwoWorkersHoldSameKeyWitness ==
    \E w1, w2 \in Workers :
        /\ w1 # w2
        /\ pub_key[w1] # NoKey /\ pub_key[w2] # NoKey
        /\ pc[w1] = "transfer" /\ pc[w2] = "lock"
        /\ grants[w1] > 0 /\ grants[w2] = 0

\* C7: in a run without crash and storage error, with sufficient funds and fair
\* scheduling, a key never has more than num_grants outputs per admission, each of
\* grant_size, and every admitted key comes to have exactly num_grants of them,
\* with the key out of the index and (key, None) its last log entry.
ServedExactly ==
    /\ [](\A k \in Keys : /\ Len(received[k]) <= admitted[k] * num_grants
                          /\ AllGrantSize(received[k])
                          /\ admitted[k] > 0 /\ k \notin DOMAIN index =>
                                /\ Len(received[k]) = admitted[k] * num_grants
                                /\ Total(received[k])
                                     = admitted[k] * num_grants * grant_size
                                /\ LastVal(persistent_queue, k) = None)
    /\ \A k \in Keys : (k \in DOMAIN index) ~> (k \notin DOMAIN index)

\* C7 witness: both keys were served in full, by different numbers of transfers.
ServedExactlyWitness ==
    /\ num_grants >= 2
    /\ index = EmptyMap
    /\ \A k \in Keys : admitted[k] >= 1 /\ Len(received[k]) = admitted[k] * num_grants
    /\ \A k \in Keys : LastVal(persistent_queue, k) = None

\* C8: when the process is killed and restarted from the log, with sufficient
\* funds and fair scheduling, every output is of grant_size, a key that has left
\* the index holds at least num_grants outputs per admission, and the queue
\* drains again and again: index and channel become empty, so every admitted key
\* leaves the index.
ServedAtLeastOnceAcrossCrash ==
    /\ [](\A k \in Keys : /\ AllGrantSize(received[k])
                          /\ k \notin DOMAIN index =>
                                Len(received[k]) >= admitted[k] * num_grants)
    /\ []<>(index = EmptyMap /\ channel = <<>>)

\* C8 witness: after a restart the queue has drained and a key holds more outputs
\* than num_grants: the transfer in flight at the crash was made again.
ServedAtLeastOnceAcrossCrashWitness ==
    /\ crashes > 0
    /\ index = EmptyMap /\ channel = <<>>
    /\ \E k \in Keys : admitted[k] = 1 /\ Len(received[k]) > num_grants

\* C9 as stated: the total a key has received is a multiple of grant_size and
\* never exceeds num_grants * grant_size.
ReceivedAtMostNumGrants ==
    \A k \in Keys : /\ Total(received[k]) % grant_size = 0
                    /\ Total(received[k]) <= num_grants * grant_size

\* C9 amended: the total a key has received is a multiple of grant_size, every
\* output being of grant_size, and never exceeds num_grants * grant_size for each
\* time the key was admitted plus 2 * grant_size for each restart of the faucet.
ReceivedBounded ==
    \A k \in Keys : /\ Total(received[k]) % grant_size = 0
                    /\ AllGrantSize(received[k])
                    /\ Total(received[k])
                         <= (admitted[k] * num_grants + 2 * crashes) * grant_size

\* C9 witness: a key admitted once holds num_grants + 2 outputs after one restart.
ReceivedBoundedWitness ==
    \E k \in Keys : /\ admitted[k] = 1
                    /\ crashes = 1
                    /\ Len(received[k]) = num_grants + 2

\* C10: every push that inserted its key has its (key, Some(0)) entry in the log;
\* what the index holds for a key is what the log last recorded for it; and a
\* restart from the log of any state recovers, in the index and once in the
\* channel, every admitted key whose last entry is not (key, None).
DurableAdmission ==
    \A k \in Keys :
        /\ Cardinality({i \in EntriesOf(persistent_queue, k) :
                            persistent_queue[i].val = Some(0)}) = admitted[k]
        /\ k \in pushing => k \in DOMAIN index
        /\ k \in DOMAIN index => /\ HasEntry(persistent_queue, k)
                                 /\ LastVal(persistent_queue, k) = Some(index[k])
        /\ admitted[k] > 0 /\ LastVal(persistent_queue, k) # None =>
              /\ k \in DOMAIN Load(persistent_queue).index
              /\ ItemsOf(Load(persistent_queue).channel, k) = 1
        /\ admitted[k] > 0 /\ k \notin DOMAIN index => LastVal(persistent_queue, k) = None

\* C10 witness: the process was killed after a push's insert and before any
\* transfer to the key, and the restart put the key in the index and the channel.
DurableAdmissionWitness ==
    \E k \in Keys :
        /\ crashes > 0
        /\ admitted[k] = 1
        /\ persistent_queue[Len(persistent_queue)] = Entry(k, Some(0))
        /\ k \in DOMAIN index
        /\ ItemsOf(channel, k) = 1
        /\ received[k] = <<>>

\* A recorded request_fee_assets call left index, log, channel and the set of
\* sends still to be made as it found them.
CallWithoutEffect == call.effect = "none"

\* C11: with max_queue_len = m the index never holds more than m keys; a push of
\* a new key while the index holds m keys returns QueueFull and changes neither
\* log, index nor channel, whether the keys of the index wait in the channel or
\* are with a worker; and a push of a new key while the index holds fewer than m
\* keys is not refused for the length (it is admitted unless the storage fails).
AdmissionBound ==
    /\ max_len # NoLimit => IndexLen(index) <= max_len
    /\ (/\ call.op = "request_fee_assets"
        /\ call.status0 = "Available"
        /\ ~call.known0) =>
           IF max_len # NoLimit /\ call.len0 >= max_len
           THEN call.res = "QueueFull" /\ CallWithoutEffect
           ELSE /\ call.res \in {"Ok(true)", "Err", "Panic"}
                /\ call.effect = IF call.res = "Ok(true)" THEN "admitted" ELSE "none"

\* C11 witness: a new key was refused with QueueFull while the one key the index
\* may hold was with a worker, the channel being empty.
AdmissionBoundWitness ==
    /\ call.op = "request_fee_assets"
    /\ call.res = "QueueFull"
    /\ ~call.known0
    /\ call.key \notin DOMAIN index
    /\ IndexLen(index) = call.len0
    /\ channel = <<>>
    /\ \E w \in Workers : pc[w] = "transfer" /\ pub_key[w] \in DOMAIN index

\* Without a crash a key holds at most num_grants outputs of grant_size for each
\* time it was admitted, and exactly that many once it has left the index.
ServedOncePerAdmission ==
    crashes = 0 =>
        \A k \in Keys :
            /\ AllGrantSize(received[k])
            /\ Len(received[k]) <= admitted[k] * num_grants
            /\ k \notin DOMAIN index => Len(received[k]) = admitted[k] * num_grants

\* C12 as stated: a push of a key of the index returns AlreadyInQueue for every
\* value of max_queue_len and changes neither log, index nor channel, and the key
\* receives exactly num_grants * grant_size per admission in the crash-free case.
DuplicateIsAlreadyInQueue ==
    /\ (/\ call.op = "request_fee_assets"
        /\ call.status0 = "Available"
        /\ call.known0) =>
           call.res = "AlreadyInQueue" /\ CallWithoutEffect
    /\ ServedOncePerAdmission

\* C12 amended: a push of a key of the index is refused without any change of
\* log, index or channel: with QueueFull when max_queue_len is set and the index
\* holds that many keys (the length is tested first), with AlreadyInQueue
\* otherwise; the key receives exactly num_grants * grant_size per admission in
\* the crash-free case.
DuplicateIsRefused ==
    /\ (/\ call.op = "request_fee_assets"
        /\ call.status0 = "Available"
        /\ call.known0) =>
           /\ call.res = IF max_len # NoLimit /\ call.len0 >= max_len
                         THEN "QueueFull" ELSE "AlreadyInQueue"
           /\ CallWithoutEffect
    /\ ServedOncePerAdmission

\* C12 witness: a key whose transfer is made and not yet recorded was requested
\* again and refused with AlreadyInQueue, under a max_queue_len not yet reached.
DuplicateIsRefusedWitness ==
    /\ call.op = "request_fee_assets"
    /\ call.res = "AlreadyInQueue"
    /\ max_len # NoLimit
    /\ call.known0
    /\ call.key \in DOMAIN index
    /\ \E w \in Workers : pc[w] = "grant" /\ pub_key[w] = call.key
    /\ received[call.key] # <<>>

\* C13: a request_fee_assets call made while the status is not Available returns
\* Unavailable and leaves log, index and channel as they were; every admitted
\* request was made while the status was Available.
UnavailableHasNoEffect ==
    call.op = "request_fee_assets" =>
        /\ call.status0 # "Available" => call.res = "Unavailable" /\ CallWithoutEffect
        /\ call.res = "Ok(true)" => call.status0 = "Available"
        /\ call.res = "Unavailable" => call.status0 = "Initializing"

\* C13 witness: after a restart that recovered a pending key, and before the
\* status is set, a request for another key was answered Unavailable.
UnavailableHasNoEffectWitness ==
    /\ call.op = "request_fee_assets"
    /\ call.res = "Unavailable"
    /\ crashes > 0
    /\ status = "Initializing"
    /\ call.len0 > 0
    /\ ~call.known0
    /\ call.key \notin DOMAIN index
    /\ IndexLen(index) = call.len0

\* C14: the status of a faucet process starts as Initializing, changes only from
\* Initializing to Available (so it is written once and never goes back), the
\* write is what remains of bootstrap while the status is Initializing, and every
\* healthcheck call answers 200 with the status as it is at the call.
StatusMonotone ==
    /\ status = "Initializing"
    /\ [](status \in {"Initializing", "Available"})
    /\ [](status = "Initializing" => ENABLED SetAvailable)
    /\ [][IF crashes' = crashes
          THEN status' # status => status = "Initializing" /\ status' = "Available"
          ELSE status' = "Initializing"]_vars
    /\ [][call' # call /\ call'.op = "healthcheck" =>
             /\ call'.code = 200
             /\ call'.status = status
             /\ status' = status]_vars

\* C14 witness: a healthcheck was answered 200 with Initializing, and the status
\* has since become Available.
StatusMonotoneWitness ==
    /\ call.op = "healthcheck"
    /\ call.code = 200
    /\ call.status = "Initializing"
    /\ status = "Available"

\* C15: a failure of the log append or of a commit during insert, grant or remove
\* is returned to the caller as a storage error, and index and log are unchanged.
StorageFailureIsReturned ==
    (/\ call.op \in {"insert", "grant", "remove"}
     /\ call.store # "Ok"
     /\ ~(call.op = "insert" /\ call.key \in DOMAIN call.index0)) =>
        /\ call.res = "Err"
        /\ index = call.index0
        /\ persistent_queue = call.queue0

\* Positions of the (key, Some(0)) entries of a log, the first and the last of them.
ZeroEntries(lg, key) == {i \in 1..Len(lg) : lg[i] = Entry(key, Some(0))}

FirstZero(lg, key) ==
    CHOOSE i \in ZeroEntries(lg, key) : \A j \in ZeroEntries(lg, key) : i <= j

LastZero(lg, key) ==
    CHOOSE i \in ZeroEntries(lg, key) : \A j \in ZeroEntries(lg, key) : j <= i

\* C16 as stated: after load the channel holds the pending keys, once each, in the
\* order of their first (key, Some(0)) entries in the log.
LoadOrderFirstRequest ==
    call.op = "load" =>
        /\ \A k \in Keys :
              ItemsOf(channel, k) = IF Pending(persistent_queue, k) THEN 1 ELSE 0
        /\ \A i, j \in 1..Len(channel) :
              i < j => FirstZero(persistent_queue, channel[i][1])
                         < FirstZero(persistent_queue, channel[j][1])

\* C16 amended: after load the channel holds the pending keys, once each, in the
\* order of their most recent (key, Some(0)) entries in the log.
LoadOrderLastRequest ==
    call.op = "load" =>
        /\ \A k \in Keys :
              ItemsOf(channel, k) = IF Pending(persistent_queue, k) THEN 1 ELSE 0
        /\ \A i, j \in 1..Len(channel) :
              i < j => LastZero(persistent_queue, channel[i][1])
                         < LastZero(persistent_queue, channel[j][1])

\* C16 witness: load of a log in which a key was requested, removed and requested
\* again after another key: the two orders differ.
LoadOrderLastRequestWitness ==
    /\ call.op = "load"
    /\ Len(channel) = 2
    /\ FirstZero(persistent_queue, channel[2][1]) < FirstZero(persistent_queue, channel[1][1])

ChannelKeys(ch) == [i \in 1..Len(ch) |-> ch[i][1]]

\* Positions of the log that hold the most recent (key, Some(0)) of a pending key.
LastRequests(lg) ==
    {i \in 1..Len(lg) : /\ lg[i].val = Some(0)
                        /\ Pending(lg, lg[i].key)
                        /\ i = LastZero(lg, lg[i].key)}

\* The keys at those positions, in the order of the log.
RECURSIVE RequestsFrom(_, _)
RequestsFrom(lg, i) ==
    IF i > Len(lg) THEN <<>>
    ELSE (IF i \in LastRequests(lg) THEN <<lg[i].key>> ELSE <<>>) \o RequestsFrom(lg, i + 1)

\* Positions of the (key, Some(0)) entries followed by a None or a Some(0) of the key.
Superseded(lg) ==
    {i \in 1..Len(lg) : /\ lg[i].val = Some(0)
                        /\ \E j \in (i + 1)..Len(lg) :
                              lg[j].key = lg[i].key /\ lg[j].val \in {None, Some(0)}}

RemoveAt(lg, i) == SubSeq(lg, 1, i - 1) \o SubSeq(lg, i + 1, Len(lg))

\* C18: the channel after load is the log restricted to the most recent
\* (key, Some(0)) entry of each pending key, in log order, and a (key, Some(0))
\* entry that precedes a later None or Some(0) of its key has no part in it: load
\* of the log without that entry gives the same channel.
LoadPositionIsLastRequest ==
    call.op = "load" =>
        /\ ChannelKeys(channel) = RequestsFrom(persistent_queue, 1)
        /\ \A i \in Superseded(persistent_queue) :
              Load(RemoveAt(persistent_queue, i)).channel = channel

\* C18 witness: load of a log in which one key has an older request closed by a
\* None entry and the other key, requested after it, holds a grant already.
LoadPositionIsLastRequestWitness ==
    /\ call.op = "load"
    /\ Len(channel) = 1
    /\ channel[1][2] > 0
    /\ \E i \in Superseded(persistent_queue) :
          /\ persistent_queue[i].key # channel[1][1]
          /\ i < LastZero(persistent_queue, channel[1][1])

\* C19: the transfer a worker has submitted has two outputs if and only if more
\* than one grant was still owed and the balance read under the lock was at least
\* 2 * grant_size, and one output otherwise; grants plus new_grants never exceeds
\* num_grants; with num_grants = 1 there is never a two-output transfer; and at
\* the balances grant_size and 2 * grant_size - 1 the decision is one output, at
\* 2 * grant_size it is two outputs when more than one grant is owed.
GrantDecision ==
    /\ \A w \in Workers :
          pc[w] \in {"grant", "fail"} =>
             /\ new_grants[w] \in {1, 2}
             /\ new_grants[w] = 2 <=>
                   (num_grants - grants[w] > 1 /\ wbalance[w] >= 2 * grant_size)
             /\ grants[w] + new_grants[w] <= num_grants
             /\ num_grants = 1 => new_grants[w] = 1
             /\ pc[w] = "grant" =>
                   /\ Len(received[pub_key[w]]) >= new_grants[w]
                   /\ balance <= wbalance[w] - new_grants[w] * grant_size - fee_size
    /\ \A given \in 0..(num_grants - 1) :
          /\ NewGrants(num_grants, given, grant_size) = 1
          /\ NewGrants(num_grants, given, 2 * grant_size - 1) = 1
          /\ NewGrants(num_grants, given, 2 * grant_size)
                = IF num_grants - given > 1 THEN 2 ELSE 1

\* C19 witness: a worker has made a one-output transfer to a key that was owed
\* more than one grant, the balance it read being below 2 * grant_size.
GrantDecisionWitness ==
    \E w \in Workers :
        /\ pc[w] = "grant"
        /\ new_grants[w] = 1
        /\ num_grants - grants[w] > 1
        /\ wbalance[w] < 2 * grant_size

\* The key is with a worker, at any point between pop and grant or fail.
HeldBy(w, k) ==
    pub_key[w] = k /\ pc[w] \in {"lock", "sleep", "transfer", "grant", "fail"}

\* C20: the step of a worker whose transfer returned an error leaves index and log
\* unchanged, appends the one item (key, index[key]) to the channel and takes the
\* worker back to pop; while the channel is open a key of the index is always in
\* the channel, with a worker or about to be sent; and a key whose transfer
\* failed comes to a transfer attempt again.
FailedTransferIsRetried ==
    /\ [][\A w \in Workers :
             pc[w] = "fail" /\ pc'[w] # "fail" =>
                /\ channel' = Append(channel, <<pub_key[w], index[pub_key[w]]>>)
                /\ index' = index
                /\ persistent_queue' = persistent_queue
                /\ received' = received
                /\ pc'[w] = "pop"]_vars
    /\ [](\A k \in DOMAIN index :
             ItemsOf(channel, k) + Cardinality({w \in Workers : HeldBy(w, k)})
               + (IF k \in pushing THEN 1 ELSE 0) = 1)
    /\ \A k \in Keys :
          (\E w \in Workers : pc[w] = "fail" /\ pub_key[w] = k)
             ~> (\E w \in Workers : pc[w] = "transfer" /\ pub_key[w] = k)

\* C20 witness: a key that holds part of its grants is back in the channel with
\* the number of grants the index records for it, and no worker holds it.
FailedTransferIsRetriedWitness ==
    \E i \in 1..Len(channel) :
        /\ channel[i][2] > 0
        /\ channel[i][2] = index[channel[i][1]]
        /\ Len(received[channel[i][1]]) = channel[i][2]
        /\ \A w \in Workers : pub_key[w] # channel[i][1]

WantsKeystore(t) ==
    \/ t \in Workers /\ pc[t] = "lock"
    \/ t \in Tasks /\ bpc[t] \in {"wait_for_work", "break_up_records", "break_up_lock",
                                   "await_lock"}

\* The worker is at the index.lock().await of FaucetQueue::grant or fail.
WantsIndex(t) == t \in Workers /\ pc[t] \in {"grant", "fail"} /\ index_lock # t

\* C23: the index lock is held by workers and request handlers only and the
\* keystore lock by workers, the breaker and init_web_server only; a worker that
\* holds the index lock took the keystore lock before it; no task that holds the
\* index lock is at a request for the keystore lock; the holder of the index lock
\* can always finish its call; and no two tasks wait for each other's lock.
LockOrder ==
    /\ index_lock \in Workers \cup Keys \cup {NoWorker}
    /\ keystore_lock \in Workers \cup Tasks \cup {NoWorker}
    /\ \A w \in Workers :
          index_lock = w => keystore_lock = w /\ pc[w] \in {"grant", "fail"}
    /\ \A t \in Workers \cup Tasks : index_lock = t => ~WantsKeystore(t)
    /\ \A w \in Workers : index_lock = w => ENABLED (Grant(w, "Ok") \/ Fail(w))
    /\ \A k \in Keys : index_lock = k => ENABLED Push(k, "StoreErr")
    /\ ~ \E t1, t2 \in Workers \cup Tasks \cup Keys :
            /\ t1 # t2
            /\ keystore_lock = t1 /\ WantsIndex(t1)
            /\ index_lock = t2 /\ WantsKeystore(t2)

\* C23 witness: a worker holds the keystore lock and waits for the index lock,
\* which a request handler holds, while the other worker and the breaker wait for
\* the keystore lock.
LockOrderWitness ==
    \E w, v \in Workers :
        /\ w # v
        /\ keystore_lock = w /\ WantsIndex(w)
        /\ index_lock \in Keys
        /\ WantsKeystore(v)
        /\ WantsKeystore(BreakerTask)

\* C24: when maintain_enough_records evaluates its wait condition with at least
\* num_records / 2 spendable records, it submits no transfer and goes to wait for
\* a wake signal; while it waits it holds no receipt, and it leaves the wait only
\* by taking one signal, to evaluate the condition again.
BreakerThreshold ==
    /\ [][(/\ bpc[BreakerTask] = "wait_for_work"
           /\ bpc'[BreakerTask] # "wait_for_work"
           /\ Len(SpendableRecords(records)) >= num_records \div 2) =>
              /\ bpc'[BreakerTask] = "wakeup"
              /\ txns' = txns
              /\ transactions' = <<>>
              /\ records' = records
              /\ balance' = balance]_vars
    /\ [][(bpc[BreakerTask] = "wakeup" /\ bpc'[BreakerTask] # "wakeup") =>
              /\ bpc'[BreakerTask] = "wait_for_work"
              /\ signal_breaker_thread' = signal_breaker_thread - 1
              /\ txns' = txns
              /\ records' = records]_vars

\* C24 witness: the breaker has taken the signal a worker sent after a request was
\* served, found records enough and is waiting again, no split being pending.
BreakerThresholdWitness ==
    /\ bpc[BreakerTask] = "wakeup"
    /\ signal_breaker_thread = 0
    /\ \E k \in Keys : admitted[k] = 1 /\ k \notin DOMAIN index
    /\ Len(SpendableRecords(records)) >= num_records \div 2
    /\ Len(SpendableRecords(records)) < num_records
    /\ \A u \in 1..Len(txns) : txns[u].status = "retired"

\* break_up_records has returned Some(transactions) and its caller still holds them.
ReturnedSome ==
    \/ bpc[InitTask] \in {"await_lock", "await_transactions"}
    \/ bpc[BreakerTask] = "wakeup_after"

\* C25: when break_up_records has returned Some(receipts), the spendable records
\* at the return and two for each receipt are at least num_records, and once all
\* the receipts are retired, no worker having spent a record, the spendable
\* records are at least num_records.
ReceiptsReachTarget ==
    (ReturnedSome /\ \A k \in Keys : received[k] = <<>>) =>
        /\ Len(SpendableRecords(records)) + 2 * Len(transactions) >= num_records
        /\ PendingReceipts(transactions) = {} =>
              Len(SpendableRecords(records)) >= num_records

RECURSIVE PendingOutputs(_)
PendingOutputs(u) ==
    IF u = 0 THEN 0
    ELSE (IF txns[u].status = "pending" THEN txns[u].outputs[1] + txns[u].outputs[2]
          ELSE 0) + PendingOutputs(u - 1)

\* What the faucet owns: its records and the outputs of its pending transactions.
Funds == balance + PendingOutputs(Len(txns))

\* C26: every transfer break_up_records submits takes the largest spendable
\* record, of an amount of at least 2 * grant_size, with fee 0 and the outputs
\* amount - amount / 2 and amount / 2, which sum to the amount and are each at
\* least grant_size; when it is retired the spendable records are two more; and
\* neither the submission nor the retirement changes what the faucet owns.
SplitInHalves ==
    /\ [][Len(txns') = Len(txns) + 1 =>
            LET spendable == SpendableRecords(records)
                t == txns'[Len(txns')]
            IN /\ spendable # <<>>
               /\ \A i \in 1..Len(records) : records[i] <= t.input
               /\ t.input = spendable[1]
               /\ t.input >= 2 * grant_size
               /\ t.fee = 0
               /\ t.outputs = <<t.input - t.input \div 2, t.input \div 2>>
               /\ t.outputs[1] + t.outputs[2] = t.input
               /\ t.outputs[1] >= grant_size /\ t.outputs[2] >= grant_size
               /\ Len(records') = Len(records) - 1
               /\ Funds' = Funds]_vars
    /\ [][(txns' # txns /\ Len(txns') = Len(txns)) =>
            /\ Len(SpendableRecords(records')) = Len(SpendableRecords(records)) + 2
            /\ Funds' = Funds]_vars
    /\ [][Funds' # Funds =>
            \E w \in Workers : pc[w] = "transfer" /\ pc'[w] = "grant"]_vars

\* C26 witness: three splits are retired, one of them of a record of an odd
\* amount, and the records have reached num_records.
SplitInHalvesWitness ==
    /\ Len(txns) >= 3
    /\ \A u \in 1..Len(txns) : txns[u].status = "retired"
    /\ \E u \in 1..Len(txns) : txns[u].outputs[1] # txns[u].outputs[2]
    /\ Len(SpendableRecords(records)) >= num_records
    /\ \A k \in Keys : received[k] = <<>>
    /\ balance = 8 * grant_size + 1

\* init_web_server is in its call of break_up_records or awaits the receipts.
Bootstrapping ==
    bpc[InitTask] \in {"break_up_records", "break_up_lock", "break_up_await",
                       "await_lock", "await_transactions"}

\* C27: while init_web_server is in its call of break_up_records or awaits the
\* receipts it returned, no worker and no breaker task exists, the channel holds
\* what load put there and nothing was granted; when init_web_server goes on to
\* spawn the breaker every transaction it submitted is retired; and the status
\* is Available only with the breaker task and every worker spawned.
BootstrapOrder ==
    /\ [](Bootstrapping =>
            /\ \A w \in Workers : pc[w] = "unspawned"
            /\ bpc[BreakerTask] = "unspawned"
            /\ channel = Load(persistent_queue).channel
            /\ \A k \in Keys : received[k] = <<>>
            /\ status = "Initializing")
    /\ [][(Bootstrapping /\ ~Bootstrapping') =>
            /\ bpc'[InitTask] = "spawn_breaker"
            /\ \A u \in 1..Len(txns) : txns[u].status = "retired"
            /\ keystore_lock' = NoWorker]_vars
    /\ [](bpc[BreakerTask] # "unspawned" =>
            bpc[InitTask] \in {"spawn_workers", "status", "done"})
    /\ [](status = "Available" =>
            /\ bpc[BreakerTask] # "unspawned"
            /\ \A w \in Workers : pc[w] # "unspawned")

\* C27 witness: a faucet started on a stored request has broken up its record,
\* is Available, and has served the request.
BootstrapOrderWitness ==
    /\ status = "Available"
    /\ txns # <<>>
    /\ \A u \in 1..Len(txns) : txns[u].status = "retired"
    /\ admitted["k1"] = 0
    /\ received["k1"] # <<>>

\* C28: a worker that read a balance below grant_size sleeps without the keystore
\* lock and submits nothing; a worker about to submit holds the lock since it
\* read a balance of at least grant_size, which nobody has spent from since; and
\* only a worker in that position submits a transfer.
BalanceWait ==
    /\ [](\A w \in Workers :
            /\ pc[w] = "sleep" => (keystore_lock # w /\ wbalance[w] < grant_size)
            /\ pc[w] = "transfer" => /\ keystore_lock = w
                                     /\ wbalance[w] >= grant_size
                                     /\ balance >= wbalance[w])
    /\ [][\A w \in Workers :
            /\ (pc[w] = "lock" /\ pc'[w] = "transfer") =>
                  (keystore_lock' = w /\ wbalance'[w] = balance)
            /\ (pc[w] = "lock" /\ pc'[w] = "sleep") =>
                  (keystore_lock' = keystore_lock /\ balance < grant_size)
            /\ pc[w] = "transfer" =>
                  (keystore_lock' = w /\ wbalance'[w] = wbalance[w] /\ balance' >= balance)
                  \/ pc'[w] # "transfer"]_vars
    /\ [][received' # received =>
            \E w \in Workers : /\ pc[w] = "transfer"
                                /\ keystore_lock = w
                                /\ wbalance[w] >= grant_size]_vars

\* C28 witness: a worker sleeps on a balance below grant_size, after a grant was
\* given, while another task holds the keystore lock.
BalanceWaitWitness ==
    /\ \E w \in Workers : pc[w] = "sleep" /\ wbalance[w] < grant_size
    /\ keystore_lock # NoWorker
    /\ \E k \in Keys : received[k] # <<>>

\* A worker has the key in hand, or the key is in the channel or about to be sent.
Serviced(k) ==
    \/ \E w \in Workers : HeldBy(w, k)
    \/ ItemsOf(channel, k) >= 1
    \/ k \in pushing

\* C29: a key is in the index if and only if a worker has it in hand or it is in
\* the channel or about to be sent to it.
IndexIffServiced == \A k \in Keys : k \in DOMAIN index <=> Serviced(k)

\* C30: the wake channel holds at most num_records signals, and a worker that
\* is to record its grant is not kept from it by the channel.
WakeChannelBounded ==
    /\ signal_breaker_thread <= num_records
    /\ \A w \in Workers :
          (pc[w] = "grant" /\ index_lock \in {NoWorker, w}) => ENABLED Grant(w, "Ok")

\* The breaker task is at a pass of break_up_records that goes to the transfer.
AtTransfer ==
    LET spendable == SpendableRecords(records) IN
    /\ bpc[BreakerTask] = "break_up_records"
    /\ Len(spendable) + 2 * Len(transactions) < num_records
    /\ spendable # <<>>
    /\ Head(spendable) >= grant_size * 2

\* C31: the breaker task makes no transfer of break_up_records, neither one that
\* is submitted nor one that fails again, while a transfer of its has failed and
\* it has taken no wake signal since.
NoRetryBeforeWake ==
    [][(AtTransfer /\ (Len(txns') > Len(txns) \/ bpc'[BreakerTask] # bpc[BreakerTask])) =>
          ~transfer_failed]_vars

\* C32: a worker at a transfer for a key carries the number of grants the index
\* holds for the key, and what fail sends back to the channel, read from the
\* index, is the number the worker carries.
CarriedGrantsMatchIndex ==
    /\ [](\A w \in Workers : pc[w] \in {"transfer", "fail"} =>
             /\ pub_key[w] \in DOMAIN index
             /\ grants[w] = index[pub_key[w]])
    /\ [][\A w \in Workers :
             (pc[w] = "fail" /\ pc'[w] = "pop" /\ crashes' = crashes /\ ~closed) =>
                channel' = Append(channel, <<pub_key[w], grants[w]>>)]_vars

\* C32 witness: a worker whose transfer failed after an earlier grant to the
\* key is about to send the key back, with one grant recorded.
CarriedGrantsMatchIndexWitness ==
    \E w \in Workers :
        /\ pc[w] = "fail"
        /\ grants[w] >= 1
        /\ received[pub_key[w]] # <<>>
        /\ crashes >= 1

\* C33: no key is in the channel twice, a key a worker has in hand is not in the
\* channel, every key in the channel is in the index, and the channel is no
\* longer than the index.
ChannelKeysOnce ==
    /\ \A k \in Keys : ItemsOf(channel, k) <= 1
    /\ \A k \in Keys : (\E w \in Workers : HeldBy(w, k)) => ItemsOf(channel, k) = 0
    /\ \A i \in 1..Len(channel) : channel[i][1] \in DOMAIN index
    /\ Len(channel) <= Cardinality(DOMAIN index)

\* C33 witness: after a restart load has sent two keys, one of which had been
\* granted to before, and a worker has taken one of them.
ChannelKeysOnceWitness ==
    /\ crashes >= 1
    /\ Len(channel) = 1
    /\ \E w \in Workers : HeldBy(w, "k1") /\ pc[w] = "transfer"
    /\ Cardinality(DOMAIN index) = 2
    /\ \E k \in Keys : received[k] # <<>>

\* C34: when push sends a key to the channel, no key whose (k, Some(0)) entry
\* was appended to the log after this key's has been sent to the channel before.
PushOrderIsLogOrder ==
    [][\A k \in Keys :
          (k \in pushing /\ k \notin pushing' /\ crashes' = crashes) =>
             \A k2 \in Keys \ {k} :
                (/\ ZeroEntries(persistent_queue, k2) # {}
                 /\ LastZero(persistent_queue, k2) > LastZero(persistent_queue, k)) =>
                   k2 \in pushing]_vars

\* C35: a worker leaves its key after FaucetQueue::grant, to pop the next one,
\* only with the key removed from the index and (key, None) the entry the call
\* appended to the log.
AbandonOnlyWhenRemoved ==
    [][\A w \in Workers :
          (pc[w] = "grant" /\ pc'[w] = "pop" /\ crashes' = crashes) =>
             /\ pub_key[w] \notin DOMAIN index'
             /\ persistent_queue' = Append(persistent_queue, Entry(pub_key[w], None))]_vars

\* C36: a push made while the index holds max_queue_len keys is refused with
\* QueueFull also when its key is one of them, and changes nothing.
FullBeforeDuplicate ==
    (/\ call.op = "request_fee_assets"
     /\ call.status0 = "Available"
     /\ max_len # NoLimit
     /\ call.len0 >= max_len) =>
        call.res = "QueueFull" /\ CallWithoutEffect

\* C36 witness: with the index full, a key of the index was requested again while
\* a worker was serving it, and the request was refused with QueueFull.
FullBeforeDuplicateWitness ==
    /\ call.op = "request_fee_assets"
    /\ call.res = "QueueFull"
    /\ call.known0
    /\ call.len0 = max_len
    /\ call.key \in DOMAIN index
    /\ \E w \in Workers : HeldBy(w, call.key)

\* The grants to a key that index.grant has recorded: num_grants for every
\* (key, None) entry of the log, and what the index holds for the key.
Recorded(k) ==
    Cardinality({i \in EntriesOf(persistent_queue, k) : persistent_queue[i].val = None})
        * num_grants
    + (IF k \in DOMAIN index THEN index[k] ELSE 0)

\* The grants a key has received that index.grant has not recorded.
Unrecorded(k) == Len(received[k]) - Recorded(k)

\* C37: the grants a key has received beyond the recorded ones are at most 2 for
\* each restart, and 2 more while a transfer to it is not recorded; a restart
\* itself gives nothing; and a key admitted once has received at most
\* num_grants + 2 * crashes grants.
CrashDuplicationBounded ==
    /\ [](\A k \in Keys :
            /\ Unrecorded(k) >= 0
            /\ Unrecorded(k) <= 2 * crashes + 2
            /\ (\A w \in Workers : ~(HeldBy(w, k) /\ pc[w] = "transfer")) =>
                  Len(received[k]) <= admitted[k] * num_grants + 2 * crashes
            /\ admitted[k] = 1 => Len(received[k]) <= num_grants + 2 * crashes)
    /\ [][crashes' # crashes => received' = received]_vars

\* C37 witness: a key admitted once was being served at a restart, with a
\* transfer of two grants not recorded, and has received num_grants + 2 grants.
CrashDuplicationBoundedWitness ==
    \E k \in Keys :
        /\ admitted[k] = 1
        /\ crashes = 1
        /\ k \notin DOMAIN index
        /\ Unrecorded(k) = 2
        /\ Len(received[k]) = num_grants + 2
        /\ num_grants >= 2

\* break_up_records of init_web_server has returned.
BreakUpReturned == bpc[InitTask] \in {Returned(InitTask, TRUE), Returned(InitTask, FALSE)}

\* C38: break_up_records returns; it returns Some(transactions) from a pass that
\* counts at least num_records in the spendable records and twice its receipts,
\* and None from a pass with no receipt held, hence nothing pending.
BreakUpTerminates ==
    /\ <>BreakUpReturned
    /\ [][(~BreakUpReturned /\ BreakUpReturned') =>
            IF bpc'[InitTask] = Returned(InitTask, TRUE)
            THEN Len(SpendableRecords(records)) + 2 * Len(transactions) >= num_records
            ELSE /\ transactions = <<>>
                 /\ Len(SpendableRecords(records)) < num_records]_vars
    /\ [](BreakUpReturned /\ bpc[InitTask] = Returned(InitTask, FALSE) =>
            \A u \in 1..Len(txns) : txns[u].status = "retired")

\* C38 witness: break_up_records has returned Some after it waited for receipts
\* and broke up their outputs.
BreakUpTerminatesWitness ==
    /\ bpc[InitTask] = Returned(InitTask, TRUE)
    /\ Len(txns) >= 3
    /\ Len(transactions) < Len(txns)
    /\ PendingReceipts(transactions) # {}

\* C39: the balance a worker read when it makes its transfer pays for the
\* outputs of the transfer and for the fee.
TransferAffordable ==
    \A w \in Workers :
        pc[w] = "transfer" =>
            wbalance[w] >= NewGrants(num_grants, grants[w], wbalance[w]) * grant_size
                              + fee_size

==========================================================================
